---- MODULE Spec2Model ----
(***************************************************************************)
(* A model of bsce-mgrep: the where-clause tokenizer, parser and           *)
(* evaluator (domain/where_parser.py), the matcher (domain/matcher.py),    *)
(* the composite filter (domain/filter.py), the lazy pipeline              *)
(* (domain/pipeline.py) and the run that wires them (cli/runner.py).       *)
(*                                                                         *)
(* Text is a sequence of one-character strings, offsets are 0-based as in  *)
(* Python: the character at offset i of s is s[i+1].                       *)
(***************************************************************************)
EXTENDS Integers, Sequences, FiniteSets, TLC

VARIABLES
    args,            \* CLIArgs: source_ok, pattern, case_sensitive, where_clauses
    source,          \* what reader.read_lines() will yield, in order
    pc,              \* position of the run / of the pipeline generator
    matcher,         \* the closure create_matcher returned
    filter_fn,       \* the closure create_filter returned
    next_index,      \* number of items requested from the source so far
    line_result,     \* the item the pipeline's for loop holds
    context,         \* the MatchContext of the current item
    outcomes,        \* everything the pipeline has yielded, in order
    stdout,          \* lines the emitter wrote to stdout
    stderr,          \* lines the emitter wrote to stderr
    run_result,      \* what run() returned
    matcher_calls,   \* source indexes the matcher was called on, in order
    filter_calls,    \* source indexes the filter was called on, in order
    expression,      \* the argument of tokenize / parse_where_expression
    tokens_result,   \* the value tokenize returned
    parse_result,    \* the value parse_where_expression returned
    ast,             \* the AST handed to evaluate_where
    eval_context,    \* the MatchContext handed to evaluate_where
    eval_result,     \* the value evaluate_where returned
    evaluations      \* the calls of evaluate_where so far, with their results

runVars == <<args, source, pc, matcher, filter_fn, next_index, line_result,
             context, outcomes, stdout, stderr, run_result, matcher_calls,
             filter_calls>>
whereVars == <<expression, tokens_result, parse_result, ast, eval_context,
               eval_result, evaluations>>
vars == <<runVars, whereVars>>

(***************************************************************************)
(* Result values (the result package)  : Ok(value) and Err(error).         *)
(***************************************************************************)
Ok(v) == [ok |-> TRUE, value |-> v]
Err(e) == [ok |-> FALSE, error |-> e]
IsOk(r) == r.ok
IsErr(r) == ~r.ok

None == [none |-> TRUE]

(***************************************************************************)
(* Characters.                                                             *)
(***************************************************************************)
LowerSeq == <<"a","b","c","d","e","f","g","h","i","j","k","l","m",
              "n","o","p","q","r","s","t","u","v","w","x","y","z">>
UpperSeq == <<"A","B","C","D","E","F","G","H","I","J","K","L","M",
              "N","O","P","Q","R","S","T","U","V","W","X","Y","Z">>
DigitSeq == <<"0","1","2","3","4","5","6","7","8","9">>

Range(f) == {f[i] : i \in DOMAIN f}

LowerLetters == Range(LowerSeq)
UpperLetters == Range(UpperSeq)
Digits == Range(DigitSeq)

\* \d
IsDigit(c) == c \in Digits
\* [a-zA-Z_]
IsIdentStart(c) == c \in LowerLetters \cup UpperLetters \cup {"_"}
\* \w, [a-zA-Z0-9_]
IsWord(c) == IsIdentStart(c) \/ IsDigit(c)
\* \s
IsSpace(c) == c \in {" ", "\t", "\n", "\r"}

\* the characters in code-point order, for str comparison
AsciiSeq == <<"\t", "\n", "\r", " ", "!", "\"", "#", "$", "%", "&", "'", "(",
              ")", "*", "+", ",", "-", ".", "/">> \o DigitSeq
            \o <<":", ";", "<", "=", ">", "?", "@">> \o UpperSeq
            \o <<"[", "\\", "]", "^", "_">> \o LowerSeq
            \o <<"{", "|", "}", "~">>

Ord(c) == CHOOSE i \in DOMAIN AsciiSeq : AsciiSeq[i] = c

\* str.lower() on one character
LowerChar(c) ==
    IF c \in UpperLetters
    THEN LowerSeq[CHOOSE i \in DOMAIN UpperSeq : UpperSeq[i] = c]
    ELSE c

\* str.lower()
Lower(s) == [i \in DOMAIN s |-> LowerChar(s[i])]

\* s[i] with a 0-based offset
At(s, i) == s[i + 1]
\* s[a:b] with 0-based offsets
Slice(s, a, b) == SubSeq(s, a + 1, b)

\* s.startswith(t, i)
StartsWithAt(s, t, i) ==
    /\ i + Len(t) <= Len(s)
    /\ \A k \in 1..Len(t) : s[i + k] = t[k]

\* t in s
Contains(s, t) == \E i \in 0..(Len(s) - Len(t)) : StartsWithAt(s, t, i)
\* s.startswith(t)
StartsWith(s, t) == StartsWithAt(s, t, 0)
\* s.endswith(t)
EndsWith(s, t) == Len(t) <= Len(s) /\ StartsWithAt(s, t, Len(s) - Len(t))

\* int() of one digit
DigitValue(c) == (CHOOSE i \in DOMAIN DigitSeq : DigitSeq[i] = c) - 1

RECURSIVE ParseNat(_)
ParseNat(s) ==
    IF s = <<>> THEN 0
    ELSE 10 * ParseNat(SubSeq(s, 1, Len(s) - 1)) + DigitValue(s[Len(s)])

\* int(text) for a text matched by -?\d+
ParseInt(s) == IF s[1] = "-" THEN 0 - ParseNat(Tail(s)) ELSE ParseNat(s)

(***************************************************************************)
(* The tokenizer (where_parser.py: TOKEN_PATTERNS, TOKEN_RE, tokenize).    *)
(* Each pattern is an operator that gives the offset just after the match  *)
(* starting at offset pos, or -1 when the pattern does not match there.    *)
(***************************************************************************)
NoMatch == 0 - 1

\* the end of the longest run of digits (word characters, whitespace) from
\* offset pos
RECURSIVE DigitsEnd(_, _)
DigitsEnd(s, pos) ==
    IF pos < Len(s) /\ IsDigit(At(s, pos)) THEN DigitsEnd(s, pos + 1) ELSE pos

RECURSIVE WordEnd(_, _)
WordEnd(s, pos) ==
    IF pos < Len(s) /\ IsWord(At(s, pos)) THEN WordEnd(s, pos + 1) ELSE pos

RECURSIVE SpaceEnd(_, _)
SpaceEnd(s, pos) ==
    IF pos < Len(s) /\ IsSpace(At(s, pos)) THEN SpaceEnd(s, pos + 1) ELSE pos

\* ('NUMBER', r'-?\d+')
MatchNUMBER(s, pos) ==
    LET start == IF pos < Len(s) /\ At(s, pos) = "-" THEN pos + 1 ELSE pos
        end == DigitsEnd(s, start)
    IN  IF end > start THEN end ELSE NoMatch

\* the body and closing quote of a string literal: ([^q\\]|\\.)*q from offset i
RECURSIVE StringEnd(_, _, _)
StringEnd(s, i, q) ==
    IF i >= Len(s) THEN NoMatch
    ELSE IF At(s, i) = q THEN i + 1
    ELSE IF At(s, i) = "\\"
         THEN IF i + 1 < Len(s) /\ At(s, i + 1) # "\n"
              THEN StringEnd(s, i + 2, q)
              ELSE NoMatch
    ELSE StringEnd(s, i + 1, q)

\* ('STRING', r'"([^"\\]|\\.)*"|\'([^\'\\]|\\.)*\'')
MatchSTRING(s, pos) ==
    IF pos < Len(s) /\ At(s, pos) \in {"\"", "'"}
    THEN StringEnd(s, pos + 1, At(s, pos))
    ELSE NoMatch

\* a pattern that is a fixed text: '>=', '<=', '==', '!=', '>', '<', ...
MatchText(s, pos, text) ==
    IF StartsWithAt(s, text, pos) THEN pos + Len(text) ELSE NoMatch

\* \b at offset pos: exactly one side is a word character
IsWordBoundary(s, pos) ==
    LET before == pos > 0 /\ IsWord(At(s, pos - 1))
        after == pos < Len(s) /\ IsWord(At(s, pos))
    IN  before # after

\* keyword patterns without the \b on either side
MatchKeyword_NoBoundary(s, pos, word) ==
    IF StartsWithAt(s, word, pos) THEN pos + Len(word) ELSE NoMatch

\* ('AND', r'\band\b'), ('OR', r'\bor\b'), ('NOT', r'\bnot\b')
MatchKeyword(s, pos, word) ==
    IF /\ IsWordBoundary(s, pos)
       /\ StartsWithAt(s, word, pos)
       /\ IsWordBoundary(s, pos + Len(word))
    THEN pos + Len(word)
    ELSE NoMatch

\* ('IDENT', r'[a-zA-Z_][a-zA-Z0-9_]*')
MatchIDENT(s, pos) ==
    IF pos < Len(s) /\ IsIdentStart(At(s, pos))
    THEN WordEnd(s, pos + 1)
    ELSE NoMatch

\* ('WHITESPACE', r'\s+')
MatchWHITESPACE(s, pos) ==
    LET end == SpaceEnd(s, pos) IN IF end > pos THEN end ELSE NoMatch

\* TOKEN_PATTERNS in the order of the list: the alternation takes the first
\* alternative that matches at the offset
TOKEN_PATTERNS(s, pos) ==
    << [type |-> "NUMBER",     end |-> MatchNUMBER(s, pos)],
       [type |-> "STRING",     end |-> MatchSTRING(s, pos)],
       [type |-> "GTE",        end |-> MatchText(s, pos, <<">", "=">>)],
       [type |-> "LTE",        end |-> MatchText(s, pos, <<"<", "=">>)],
       [type |-> "EQ",         end |-> MatchText(s, pos, <<"=", "=">>)],
       [type |-> "NEQ",        end |-> MatchText(s, pos, <<"!", "=">>)],
       [type |-> "GT",         end |-> MatchText(s, pos, <<">">>)],
       [type |-> "LT",         end |-> MatchText(s, pos, <<"<">>)],
       [type |-> "AND",        end |-> MatchKeyword(s, pos, <<"a", "n", "d">>)],
       [type |-> "OR",         end |-> MatchKeyword(s, pos, <<"o", "r">>)],
       [type |-> "NOT",        end |-> MatchKeyword(s, pos, <<"n", "o", "t">>)],
       [type |-> "IDENT",      end |-> MatchIDENT(s, pos)],
       [type |-> "LPAREN",     end |-> MatchText(s, pos, <<"(">>)],
       [type |-> "RPAREN",     end |-> MatchText(s, pos, <<")">>)],
       [type |-> "DOT",        end |-> MatchText(s, pos, <<".">>)],
       [type |-> "COMMA",      end |-> MatchText(s, pos, <<",">>)],
       [type |-> "WHITESPACE", end |-> MatchWHITESPACE(s, pos)] >>

\* TOKEN_RE.match(s, pos): the first alternative that matches, or type "NONE"
TOKEN_RE(s, pos) ==
    LET alts == TOKEN_PATTERNS(s, pos)
        hits == {k \in DOMAIN alts : alts[k].end # NoMatch}
    IN  IF hits = {} THEN [type |-> "NONE", end |-> NoMatch]
        ELSE alts[CHOOSE k \in hits : \A j \in hits : k <= j]

Token(type, value, position) ==
    [type |-> type, value |-> value, position |-> position]

\* the loop over TOKEN_RE.finditer(expression) from scan offset pos:
\* finditer searches, so an offset where nothing matches is passed over; only
\* a non-whitespace token moves position
RECURSIVE FindIter(_, _, _, _)
FindIter(s, pos, tokens, position) ==
    IF pos >= Len(s)
    THEN [tokens |-> tokens, position |-> position]
    ELSE LET m == TOKEN_RE(s, pos)
         IN  IF m.type = "NONE" THEN FindIter(s, pos + 1, tokens, position)
             ELSE IF m.type = "WHITESPACE"
                  THEN FindIter(s, m.end, tokens, position)
             ELSE FindIter(s, m.end,
                           Append(tokens, Token(m.type, Slice(s, pos, m.end), pos)),
                           m.end)

tokenize(s) ==
    LET r == FindIter(s, 0, <<>>, 0)
    IN  IF r.position < Len(s)
        THEN Err(<<"Unexpected character at position ", ToString(r.position),
                   ": ", At(s, r.position)>>)
        ELSE Ok(r.tokens)

(***************************************************************************)
(* Runtime values and AST nodes (where_parser.py: Literal, Attribute,      *)
(* MethodCall, GroupAccess, BinaryOp, UnaryOp).  A runtime value carries   *)
(* its Python type: bool, int or str.                                      *)
(***************************************************************************)
IntV(n) == [type |-> "int", int |-> n]
StrV(s) == [type |-> "str", str |-> s]
BoolV(b) == [type |-> "bool", bool |-> b]

Literal(value) == [node |-> "Literal", value |-> value]
Attribute(object, attr) == [node |-> "Attribute", object |-> object, attr |-> attr]
MethodCall(object, method, arguments) ==
    [node |-> "MethodCall", object |-> object, method |-> method, args |-> arguments]
GroupAccess(name) == [node |-> "GroupAccess", name |-> name]
BinaryOp(left, op, right) ==
    [node |-> "BinaryOp", left |-> left, op |-> op, right |-> right]
UnaryOp(op, operand) == [node |-> "UnaryOp", op |-> op, operand |-> operand]

(***************************************************************************)
(* The parser (where_parser.py: class Parser).  A parsing method returns   *)
(* POk(node, position after it) or, where the code raises ValueError,      *)
(* PErr(message); a PErr propagates to parse, as the exception does.       *)
(***************************************************************************)
POk(node, pos) == [ok |-> TRUE, node |-> node, pos |-> pos]
PErr(message) == [ok |-> FALSE, error |-> message]

\* Parser.current_token is not None
HasToken(toks, p) == p < Len(toks)
\* Parser.current_token, where there is one
current_token(toks, p) == toks[p + 1]
\* self.current_token() and self.current_token().type == type
CurrentIs(toks, p, type) == HasToken(toks, p) /\ current_token(toks, p).type = type

\* Parser.consume: the token and the position after it, or the ValueError
consume(toks, p, expected_type) ==
    IF ~HasToken(toks, p) THEN PErr(<<"Unexpected end of expression">>)
    ELSE LET token == current_token(toks, p)
         IN  IF expected_type # "" /\ token.type # expected_type
             THEN PErr(<<"Expected ", expected_type, ", got ", token.type,
                         " at position ", ToString(token.position)>>)
             ELSE POk(token, p + 1)

\* str.replace(old, new) for a two-character old and a one-character new
RECURSIVE Replace2(_, _, _)
Replace2(s, old, new) ==
    IF s = <<>> THEN <<>>
    ELSE IF StartsWithAt(s, old, 0)
         THEN <<new>> \o Replace2(SubSeq(s, 3, Len(s)), old, new)
    ELSE <<s[1]>> \o Replace2(Tail(s), old, new)

\* token.value[1:-1].replace(r'\"', '"').replace(r"\'", "'")
Unquote(value) ==
    Replace2(Replace2(Slice(value, 1, Len(value) - 1), <<"\\", "\"">>, "\""),
             <<"\\", "'">>, "'")

Comparators == {"GT", "LT", "GTE", "LTE", "EQ", "NEQ"}

\* op_map in parse_cmp_expr
op_map(type) ==
    CASE type = "GT" -> ">"
      [] type = "LT" -> "<"
      [] type = "GTE" -> ">="
      [] type = "LTE" -> "<="
      [] type = "EQ" -> "=="
      [] type = "NEQ" -> "!="

RECURSIVE parse_or_expr(_, _)
RECURSIVE or_loop(_, _, _)
RECURSIVE parse_and_expr(_, _)
RECURSIVE and_loop(_, _, _)
RECURSIVE parse_cmp_expr(_, _)
RECURSIVE parse_term(_, _)
RECURSIVE parse_atom(_, _)

\* self.consume('RPAREN') and the return that ends a branch of parse_atom
close_paren(node, close) ==
    IF ~close.ok THEN close ELSE POk(node, close.pos)

\* the position after the arguments that follow the first one
RECURSIVE SkipArguments(_, _)
SkipArguments(toks, p) ==
    IF CurrentIs(toks, p, "COMMA") /\ CurrentIs(toks, p + 1, "STRING")
    THEN SkipArguments(toks, p + 2)
    ELSE p

\* a method call that accepts further arguments and drops them
parse_method_call_DropsExtraArguments(toks, p, ident, member) ==
    IF CurrentIs(toks, p, "STRING")
    THEN close_paren(MethodCall(ident, member,
                                <<Unquote(current_token(toks, p).value)>>),
                     consume(toks, SkipArguments(toks, p + 1), "RPAREN"))
    ELSE close_paren(MethodCall(ident, member, <<>>),
                     consume(toks, p, "RPAREN"))

\* the method call branch of parse_atom, after IDENT '.' IDENT '('
parse_method_call(toks, p, ident, member) ==
    IF CurrentIs(toks, p, "STRING")
    THEN close_paren(MethodCall(ident, member,
                                <<Unquote(current_token(toks, p).value)>>),
                     consume(toks, p + 1, "RPAREN"))
    ELSE close_paren(MethodCall(ident, member, <<>>),
                     consume(toks, p, "RPAREN"))

\* a function call branch that takes every name for group
parse_group_call_AnyName(toks, p, ident) ==
    IF CurrentIs(toks, p, "STRING")
    THEN close_paren(GroupAccess(Unquote(current_token(toks, p).value)),
                     consume(toks, p + 1, "RPAREN"))
    ELSE PErr(<<"group() requires string argument">>)

\* the function call branch of parse_atom, after IDENT '('
parse_group_call(toks, p, ident) ==
    IF ident = <<"g", "r", "o", "u", "p">>
    THEN IF CurrentIs(toks, p, "STRING")
         THEN close_paren(GroupAccess(Unquote(current_token(toks, p).value)),
                          consume(toks, p + 1, "RPAREN"))
         ELSE PErr(<<"group() requires string argument">>)
    ELSE PErr(<<"Unknown function: ">> \o ident)

\* parse_atom after IDENT '.', member being self.consume('IDENT')
parse_member(toks, ident, member) ==
    IF ~member.ok THEN member
    ELSE IF CurrentIs(toks, member.pos, "LPAREN")
         THEN parse_method_call(toks, member.pos + 1, ident, member.node.value)
    ELSE POk(Attribute(ident, member.node.value), member.pos)

\* the identifier branch of parse_atom, after the IDENT at p - 1
parse_identifier(toks, p, ident) ==
    IF CurrentIs(toks, p, "DOT")
    THEN parse_member(toks, ident, consume(toks, p + 1, "IDENT"))
    ELSE IF CurrentIs(toks, p, "LPAREN")
         THEN parse_group_call(toks, p + 1, ident)
    ELSE PErr(<<"Unexpected identifier: ">> \o ident)

\* the parenthesis branch of parse_atom, expr being self.parse_or_expr()
parse_paren(toks, expr) ==
    IF ~expr.ok THEN expr
    ELSE close_paren(expr.node, consume(toks, expr.pos, "RPAREN"))

\* parse_atom on its current token
parse_atom_at(toks, p, token) ==
    CASE token.type = "LPAREN" -> parse_paren(toks, parse_or_expr(toks, p + 1))
      [] token.type = "NUMBER" ->
           POk(Literal(IntV(ParseInt(token.value))), p + 1)
      [] token.type = "STRING" ->
           POk(Literal(StrV(Unquote(token.value))), p + 1)
      [] token.type = "IDENT" -> parse_identifier(toks, p + 1, token.value)
      [] OTHER -> PErr(<<"Unexpected token: ", token.type>>)

parse_atom(toks, p) ==
    IF ~HasToken(toks, p) THEN PErr(<<"Unexpected end of expression">>)
    ELSE parse_atom_at(toks, p, current_token(toks, p))

\* the return of parse_term's not branch, operand being what the not applies to
not_term(operand) ==
    IF ~operand.ok THEN operand
    ELSE POk(UnaryOp("not", operand.node), operand.pos)

\* a term whose not takes a whole comparison as its operand
parse_term_NotOverComparison(toks, p) ==
    IF CurrentIs(toks, p, "NOT")
    THEN not_term(parse_cmp_expr(toks, p + 1))
    ELSE parse_atom(toks, p)

parse_term(toks, p) ==
    IF CurrentIs(toks, p, "NOT")
    THEN not_term(parse_term(toks, p + 1))
    ELSE parse_atom(toks, p)

\* parse_cmp_expr with both operands parsed
cmp_right(left, op_token, right) ==
    IF ~right.ok THEN right
    ELSE POk(BinaryOp(left.node, op_map(op_token.type), right.node), right.pos)

\* parse_cmp_expr with its left operand parsed: at most one comparator
cmp_left(toks, left) ==
    IF ~left.ok THEN left
    ELSE IF HasToken(toks, left.pos)
            /\ current_token(toks, left.pos).type \in Comparators
         THEN cmp_right(left, current_token(toks, left.pos),
                        parse_term(toks, left.pos + 1))
    ELSE left

parse_cmp_expr(toks, p) == cmp_left(toks, parse_term(toks, p))

\* the body of parse_and_expr's while loop, right being self.parse_cmp_expr()
and_right(toks, left, right) ==
    IF ~right.ok THEN right
    ELSE and_loop(toks, BinaryOp(left, "and", right.node), right.pos)

\* the while loop of parse_and_expr, with left parsed up to p
and_loop(toks, left, p) ==
    IF CurrentIs(toks, p, "AND")
    THEN and_right(toks, left, parse_cmp_expr(toks, p + 1))
    ELSE POk(left, p)

\* parse_and_expr with its first operand parsed
and_left(toks, left) ==
    IF ~left.ok THEN left ELSE and_loop(toks, left.node, left.pos)

parse_and_expr(toks, p) == and_left(toks, parse_cmp_expr(toks, p))

\* the body of parse_or_expr's while loop, right being self.parse_and_expr()
or_right(toks, left, right) ==
    IF ~right.ok THEN right
    ELSE or_loop(toks, BinaryOp(left, "or", right.node), right.pos)

\* an or whose right operand is only a comparison: and no longer binds
\* tighter than or
or_loop_OperandIsComparison(toks, left, p) ==
    IF CurrentIs(toks, p, "OR")
    THEN or_right(toks, left, parse_cmp_expr(toks, p + 1))
    ELSE POk(left, p)

\* the while loop of parse_or_expr, with left parsed up to p
or_loop(toks, left, p) ==
    IF CurrentIs(toks, p, "OR")
    THEN or_right(toks, left, parse_and_expr(toks, p + 1))
    ELSE POk(left, p)

\* parse_or_expr with its first operand parsed
or_left(toks, left) ==
    IF ~left.ok THEN left ELSE or_loop(toks, left.node, left.pos)

parse_or_expr(toks, p) == or_left(toks, parse_and_expr(toks, p))

\* a parse that returns the expression it read and leaves the rest
parse_end_IgnoresLeftover(toks, r) ==
    IF ~r.ok THEN Err(r.error) ELSE Ok(r.node)

\* Parser.parse after self.parse_or_expr(): a leftover token is an error
parse_end(toks, r) ==
    IF ~r.ok THEN Err(r.error)
    ELSE IF HasToken(toks, r.pos)
         THEN Err(<<"Unexpected token after expression: ">>
                  \o current_token(toks, r.pos).value)
    ELSE Ok(r.node)

\* Parser(tokens).parse()
parse(toks) == parse_end(toks, parse_or_expr(toks, 0))

\* parse_where_expression after tokenize
parse_tokens(tokens_r) ==
    IF IsErr(tokens_r) THEN tokens_r ELSE parse(tokens_r.value)

parse_where_expression(expr) == parse_tokens(tokenize(expr))

(***************************************************************************)
(* Domain types (types.py): Line and MatchContext.  groups maps a group    *)
(* name to a runtime value: re's groupdict() gives a str, or None for a    *)
(* named group that took no part in the match.                             *)
(***************************************************************************)
NoneV == [type |-> "NoneType"]

Line(number, content) == [number |-> number, content |-> content]
MatchContext(line, groups) == [line |-> line, groups |-> groups]
NoGroups == <<>>

(***************************************************************************)
(* The evaluator (where_parser.py: evaluate_where, _evaluate_node), with   *)
(* Python's operators on bool, int, str and None.  _evaluate_node returns  *)
(* Ok(value) or, where the code raises, Err(the exception's message).      *)
(***************************************************************************)
\* a truthiness for which every text is true
Truthy_TextIsTrue(v) ==
    CASE v.type = "bool" -> v.bool
      [] v.type = "int" -> v.int # 0
      [] v.type = "str" -> TRUE
      [] OTHER -> FALSE

\* bool(value)
Truthy(v) ==
    CASE v.type = "bool" -> v.bool
      [] v.type = "int" -> v.int # 0
      [] v.type = "str" -> v.str # <<>>
      [] OTHER -> FALSE

\* bool is a subclass of int: True is 1, False is 0
IsNumber(v) == v.type \in {"int", "bool"}
NumberOf(v) == IF v.type = "bool" THEN (IF v.bool THEN 1 ELSE 0) ELSE v.int

\* a < b on str: the first differing code point decides, else the length
RECURSIVE StrLess(_, _)
StrLess(a, b) ==
    IF b = <<>> THEN FALSE
    ELSE IF a = <<>> THEN TRUE
    ELSE IF a[1] # b[1] THEN Ord(a[1]) < Ord(b[1])
    ELSE StrLess(Tail(a), Tail(b))

\* left == right
PyEq(l, r) ==
    IF IsNumber(l) /\ IsNumber(r) THEN NumberOf(l) = NumberOf(r)
    ELSE IF l.type = "str" /\ r.type = "str" THEN l.str = r.str
    ELSE l.type = "NoneType" /\ r.type = "NoneType"

\* left < right is defined: two numbers or two strs; otherwise TypeError
Orderable(l, r) ==
    \/ IsNumber(l) /\ IsNumber(r)
    \/ l.type = "str" /\ r.type = "str"

\* left < right, where defined
PyLess(l, r) ==
    IF IsNumber(l) THEN NumberOf(l) < NumberOf(r) ELSE StrLess(l.str, r.str)

TypeError(op, l, r) ==
    Err(<<"'", op, "' not supported between instances of '", l.type,
          "' and '", r.type, "'">>)

\* the match op of the BinaryOp case, on the two operand values
binary_op(op, l, r) ==
    CASE op = ">" -> IF Orderable(l, r) THEN Ok(BoolV(PyLess(r, l)))
                     ELSE TypeError(op, l, r)
      [] op = "<" -> IF Orderable(l, r) THEN Ok(BoolV(PyLess(l, r)))
                     ELSE TypeError(op, l, r)
      [] op = ">=" -> IF Orderable(l, r) THEN Ok(BoolV(~PyLess(l, r)))
                      ELSE TypeError(op, l, r)
      [] op = "<=" -> IF Orderable(l, r) THEN Ok(BoolV(~PyLess(r, l)))
                      ELSE TypeError(op, l, r)
      [] op = "==" -> Ok(BoolV(PyEq(l, r)))
      [] op = "!=" -> Ok(BoolV(~PyEq(l, r)))
      [] op = "and" -> Ok(BoolV(Truthy(l) /\ Truthy(r)))
      [] op = "or" -> Ok(BoolV(Truthy(l) \/ Truthy(r)))
      [] OTHER -> Err(<<"Unknown binary operator: ", op>>)

LineName == <<"l", "i", "n", "e">>
LengthName == <<"l", "e", "n", "g", "t", "h">>
NumberName == <<"n", "u", "m", "b", "e", "r">>
ContentName == <<"c", "o", "n", "t", "e", "n", "t">>
ContainsName == <<"c", "o", "n", "t", "a", "i", "n", "s">>
StartswithName == <<"s", "t", "a", "r", "t", "s", "w", "i", "t", "h">>
EndswithName == <<"e", "n", "d", "s", "w", "i", "t", "h">>

\* the Attribute case
eval_attribute(node, ctx) ==
    IF node.object = LineName
    THEN CASE node.attr = LengthName -> Ok(IntV(Len(ctx.line.content)))
           [] node.attr = NumberName -> Ok(IntV(ctx.line.number))
           [] node.attr = ContentName -> Ok(StrV(ctx.line.content))
           [] OTHER -> Err(<<"Unknown line attribute: ">> \o node.attr)
    ELSE Err(<<"Unknown object: ">> \o node.object)

\* the MethodCall case
eval_method_call(node, ctx) ==
    IF node.object = LineName
    THEN IF node.method \in {ContainsName, StartswithName, EndswithName}
         THEN IF Len(node.args) # 1
              THEN Err(node.method \o <<"() requires exactly 1 argument">>)
              ELSE CASE node.method = ContainsName ->
                          Ok(BoolV(Contains(ctx.line.content, node.args[1])))
                     [] node.method = StartswithName ->
                          Ok(BoolV(StartsWith(ctx.line.content, node.args[1])))
                     [] node.method = EndswithName ->
                          Ok(BoolV(EndsWith(ctx.line.content, node.args[1])))
         ELSE Err(<<"Unknown line method: ">> \o node.method)
    ELSE Err(<<"Unknown object: ">> \o node.object)

\* a BinaryOp that does not evaluate its right operand when the left one
\* decides an and or an or
binary_operands_ShortCircuit(node, left_val, right_val) ==
    IF IsErr(left_val) THEN left_val
    ELSE IF node.op = "or" /\ Truthy(left_val.value) THEN Ok(BoolV(TRUE))
    ELSE IF node.op = "and" /\ ~Truthy(left_val.value) THEN Ok(BoolV(FALSE))
    ELSE IF IsErr(right_val) THEN right_val
    ELSE binary_op(node.op, left_val.value, right_val.value)

\* the BinaryOp case of _evaluate_node: left_val and right_val are both
\* evaluated before the operator is looked at, and the first exception raised
\* is the one that propagates
binary_operands(node, left_val, right_val) ==
    IF IsErr(left_val) THEN left_val
    ELSE IF IsErr(right_val) THEN right_val
    ELSE binary_op(node.op, left_val.value, right_val.value)

RECURSIVE _evaluate_node(_, _)
_evaluate_node(node, ctx) ==
    CASE node.node = "Literal" -> Ok(node.value)
      [] node.node = "Attribute" -> eval_attribute(node, ctx)
      [] node.node = "MethodCall" -> eval_method_call(node, ctx)
      [] node.node = "GroupAccess" ->
            IF node.name \in DOMAIN ctx.groups
            THEN Ok(ctx.groups[node.name])
            ELSE Err(<<"Regex group not found: ">> \o node.name)
      [] node.node = "BinaryOp" ->
            binary_operands(node, _evaluate_node(node.left, ctx),
                            _evaluate_node(node.right, ctx))
      [] node.node = "UnaryOp" ->
            LET operand_val == _evaluate_node(node.operand, ctx)
            IN  IF IsErr(operand_val) THEN operand_val
                ELSE IF node.op = "not"
                     THEN Ok(BoolV(~Truthy(operand_val.value)))
                ELSE Err(<<"Unknown unary operator: ", node.op>>)
      [] OTHER -> Err(<<"Unknown AST node type">>)

\* an evaluate_where without its try: the exception message leaves as it is
evaluate_where_NoExcept(node, ctx) ==
    LET result == _evaluate_node(node, ctx)
    IN  IF IsErr(result)
        THEN [ok |-> FALSE, error |-> result.error, raised |-> TRUE]
        ELSE Ok(result.value)

evaluate_where(node, ctx) ==
    LET result == _evaluate_node(node, ctx)
    IN  IF IsErr(result) THEN Err(<<"Evaluation error: ">> \o result.error)
        ELSE Ok(result.value)

(***************************************************************************)
(* The regex engine (re.compile, Pattern.search, Match.groupdict), for the *)
(* fragment of re that the model's patterns use: literal characters, the   *)
(* dot, \d, an escaped punctuation character, the greedy quantifiers       *)
(* + * ? on an atom that consumes at least one character, and the groups   *)
(* ( ... ), (?: ... ) and (?P<name> ... ).  A pattern is compiled to a     *)
(* sequence of pieces [atom, quant]; a group atom holds the pieces of its  *)
(* body.  Matching backtracks: the matches of a pattern at an offset are   *)
(* listed in the order the engine tries them, and search takes the first   *)
(* match at the leftmost offset that has one.                              *)
(***************************************************************************)
RxOk(value, pos) == [ok |-> TRUE, value |-> value, pos |-> pos]
\* re.error(msg, pattern, pos): str(e) is "msg at position pos"
RxErr(msg, pos) ==
    [ok |-> FALSE, error |-> msg \o <<" at position ", ToString(pos)>>]

CharAtom(c) == [kind |-> "char", c |-> c]
AnyAtom == [kind |-> "any"]
DigitAtom == [kind |-> "digit"]
GroupAtom(name, body) == [kind |-> "group", name |-> name, body |-> body]
Piece(atom, quant) == [atom |-> atom, quant |-> quant]

Quantifiers == {"+", "*", "?"}

RECURSIVE rx_seq(_, _, _)

\* the repeat that may follow an atom
rx_quant(s, atom_r) ==
    IF ~atom_r.ok THEN atom_r
    ELSE IF atom_r.pos < Len(s) /\ At(s, atom_r.pos) \in Quantifiers
         THEN IF atom_r.pos + 1 < Len(s) /\ At(s, atom_r.pos + 1) \in {"+", "*"}
              THEN RxErr(<<"multiple repeat">>, atom_r.pos + 1)
              ELSE RxOk(Piece(atom_r.value, At(s, atom_r.pos)), atom_r.pos + 1)
    ELSE RxOk(Piece(atom_r.value, ""), atom_r.pos)

\* the end of a group opened at offset open, its body parsed
rx_group_body(s, open, name, body_r) ==
    IF ~body_r.ok THEN body_r
    ELSE IF body_r.pos < Len(s)
         THEN RxOk(GroupAtom(name, body_r.value), body_r.pos + 1)
    ELSE RxErr(<<"missing ), unterminated subpattern">>, open)

\* the offset of the first ">" from offset i, or NoMatch
RECURSIVE NameEnd(_, _)
NameEnd(s, i) ==
    IF i >= Len(s) THEN NoMatch
    ELSE IF At(s, i) = ">" THEN i
    ELSE NameEnd(s, i + 1)

\* str.isidentifier() on a group name
IsIdentifier(name) ==
    /\ name # <<>>
    /\ IsIdentStart(name[1])
    /\ \A k \in DOMAIN name : IsWord(name[k])

\* (?P<name> ... ) opened at offset open, the name ending before offset end
rx_named_body(s, open, end) ==
    IF end = NoMatch
    THEN RxErr(<<"missing >, unterminated name">>, open + 4)
    ELSE IF end = open + 4 THEN RxErr(<<"missing group name">>, open + 4)
    ELSE IF ~IsIdentifier(Slice(s, open + 4, end))
         THEN RxErr(<<"bad character in group name '">>
                    \o Slice(s, open + 4, end) \o <<"'">>, open + 4)
    ELSE rx_group_body(s, open, Slice(s, open + 4, end),
                       rx_seq(s, end + 1, <<>>))

\* "(?" at offset open: the extensions (?: (?P<name> and the error for the
\* others the patterns use
rx_extension(s, open) ==
    IF open + 2 >= Len(s)
    THEN RxErr(<<"unexpected end of pattern">>, open + 2)
    ELSE CASE At(s, open + 2) = ":" ->
                rx_group_body(s, open, <<>>, rx_seq(s, open + 3, <<>>))
           [] At(s, open + 2) = "P" ->
                IF open + 3 >= Len(s)
                THEN RxErr(<<"unexpected end of pattern">>, open + 3)
                ELSE IF At(s, open + 3) = "<"
                     THEN rx_named_body(s, open, NameEnd(s, open + 4))
                ELSE RxErr(<<"unknown extension ?P", At(s, open + 3)>>,
                           open + 1)
           [] At(s, open + 2) = "<" ->
                IF open + 3 >= Len(s)
                THEN RxErr(<<"unexpected end of pattern">>, open + 3)
                ELSE RxErr(<<"unknown extension ?<", At(s, open + 3)>>,
                           open + 1)

\* one atom at offset i, which is inside the pattern and holds no ")"
rx_atom(s, i) ==
    CASE At(s, i) = "(" ->
            IF i + 1 < Len(s) /\ At(s, i + 1) = "?"
            THEN rx_extension(s, i)
            ELSE rx_group_body(s, i, <<>>, rx_seq(s, i + 1, <<>>))
      [] At(s, i) = "\\" ->
            IF i + 1 >= Len(s) THEN RxErr(<<"bad escape (end of pattern)">>, i)
            ELSE IF At(s, i + 1) = "d" THEN RxOk(DigitAtom, i + 2)
            ELSE RxOk(CharAtom(At(s, i + 1)), i + 2)
      [] At(s, i) \in Quantifiers -> RxErr(<<"nothing to repeat">>, i)
      [] At(s, i) = "." -> RxOk(AnyAtom, i + 1)
      [] OTHER -> RxOk(CharAtom(At(s, i)), i + 1)

\* the pieces from offset i on, one piece parsed
rx_seq_next(s, items, piece_r) ==
    IF ~piece_r.ok THEN piece_r
    ELSE rx_seq(s, piece_r.pos, Append(items, piece_r.value))

\* the pieces from offset i up to the end of the pattern or a ")"
rx_seq(s, i, items) ==
    IF i >= Len(s) \/ At(s, i) = ")" THEN RxOk(items, i)
    ELSE rx_seq_next(s, items, rx_quant(s, rx_atom(s, i)))

\* the names of the named groups of a sequence of pieces (groupindex)
RECURSIVE group_names(_)
group_names(items) ==
    IF items = <<>> THEN {}
    ELSE group_names(Tail(items))
         \cup (IF Head(items).atom.kind = "group"
               THEN group_names(Head(items).atom.body)
                    \cup (IF Head(items).atom.name = <<>> THEN {}
                          ELSE {Head(items).atom.name})
               ELSE {})

\* the whole pattern parsed: a ")" left over has no "(" to close
rx_top(s, ignorecase, r) ==
    IF ~r.ok THEN Err(r.error)
    ELSE IF r.pos < Len(s)
         THEN Err(RxErr(<<"unbalanced parenthesis">>, r.pos).error)
    ELSE Ok([items |-> r.value, ignorecase |-> ignorecase,
             names |-> group_names(r.value)])

\* re.compile(regex_pattern, flags): Ok(compiled) or Err(str(re.error))
re_compile(regex_pattern, ignorecase) ==
    rx_top(regex_pattern, ignorecase, rx_seq(regex_pattern, 0, <<>>))

\* a match in progress: the offset reached and the named groups captured
MatchState(pos, groups) == [pos |-> pos, groups |-> groups]

\* groups with the capture of the group name set to text
SetGroup(groups, name, text) ==
    [n \in DOMAIN groups \cup {name} |-> IF n = name THEN text ELSE groups[n]]

\* an atom that is not a group against one character
CharMatches(atom, c, ignorecase) ==
    CASE atom.kind = "any" -> c # "\n"
      [] atom.kind = "digit" -> IsDigit(c)
      [] atom.kind = "char" ->
            IF ignorecase THEN LowerChar(atom.c) = LowerChar(c) ELSE atom.c = c

RECURSIVE match_seq(_, _, _, _)
RECURSIVE star(_, _, _, _)

\* the matches of a group, each with the group's capture recorded
capture(name, cx, i, results) ==
    IF name = <<>> THEN results
    ELSE [k \in DOMAIN results |->
            MatchState(results[k].pos,
                       SetGroup(results[k].groups, name,
                                Slice(cx.content, i, results[k].pos)))]

\* the matches of one atom at offset i, in the order they are tried
match_atom(atom, cx, i, groups) ==
    IF atom.kind = "group"
    THEN capture(atom.name, cx, i, match_seq(atom.body, cx, i, groups))
    ELSE IF i < Len(cx.content)
            /\ CharMatches(atom, At(cx.content, i), cx.ignorecase)
         THEN <<MatchState(i + 1, groups)>>
    ELSE <<>>

\* a repeat from offset i goes on from each match of its atom; min_one says
\* that the match itself is taken where going on is not possible
RECURSIVE star_more(_, _, _, _, _)
star_more(atom, cx, i, min_one, results) ==
    IF results = <<>> THEN <<>>
    ELSE (IF Head(results).pos > i
          THEN star(atom, cx, Head(results).pos, Head(results).groups)
          ELSE IF min_one THEN <<Head(results)>> ELSE <<>>)
         \o star_more(atom, cx, i, min_one, Tail(results))

\* atom*: as many as possible first, none last
star(atom, cx, i, groups) ==
    star_more(atom, cx, i, FALSE, match_atom(atom, cx, i, groups))
    \o <<MatchState(i, groups)>>

\* the matches of one piece at offset i, in the order they are tried
match_piece(piece, cx, i, groups) ==
    CASE piece.quant = "" -> match_atom(piece.atom, cx, i, groups)
      [] piece.quant = "?" ->
            match_atom(piece.atom, cx, i, groups) \o <<MatchState(i, groups)>>
      [] piece.quant = "*" -> star(piece.atom, cx, i, groups)
      [] piece.quant = "+" ->
            star_more(piece.atom, cx, i, TRUE,
                      match_atom(piece.atom, cx, i, groups))

\* the rest of a sequence from each match of its first piece
RECURSIVE seq_rest(_, _, _)
seq_rest(items, cx, results) ==
    IF results = <<>> THEN <<>>
    ELSE match_seq(items, cx, Head(results).pos, Head(results).groups)
         \o seq_rest(items, cx, Tail(results))

\* the matches of a sequence of pieces at offset i, in the order tried
match_seq(items, cx, i, groups) ==
    IF items = <<>> THEN <<MatchState(i, groups)>>
    ELSE seq_rest(Tail(items), cx, match_piece(Head(items), cx, i, groups))

\* compiled.search(content) found nothing
NoMatchFound == [found |-> FALSE]

RECURSIVE search_from(_, _, _)

\* the first match at offset i, or the search from the next offset
search_at(compiled, cx, i, results) ==
    IF results # <<>>
    THEN [found |-> TRUE, start |-> i, end |-> Head(results).pos,
          groups |-> Head(results).groups]
    ELSE search_from(compiled, cx, i + 1)

search_from(compiled, cx, i) ==
    IF i > Len(cx.content) THEN NoMatchFound
    ELSE search_at(compiled, cx, i, match_seq(compiled.items, cx, i, <<>>))

\* compiled.search(content): the leftmost match, or NoMatchFound
re_search(compiled, content) ==
    search_from(compiled,
                [content |-> content, ignorecase |-> compiled.ignorecase], 0)

\* match.groupdict(): every named group of the pattern, with its capture or
\* None where the group took no part in the match
groupdict(compiled, match) ==
    [n \in compiled.names |->
        IF n \in DOMAIN match.groups THEN StrV(match.groups[n]) ELSE NoneV]

(***************************************************************************)
(* The matcher (matcher.py).  create_matcher returns a closure; the model  *)
(* keeps the closure as a record of what it captured, and call_matcher     *)
(* applies it to a line.                                                   *)
(***************************************************************************)
REGEX_DELIMITER == "/"
MIN_REGEX_LENGTH == 3

MatchConfig(pattern, case_sensitive) ==
    [pattern |-> pattern, case_sensitive |-> case_sensitive]

\* a detection without the minimum length
_is_regex_pattern_AnyLength(pattern) ==
    /\ pattern # <<>>
    /\ pattern[1] = REGEX_DELIMITER
    /\ pattern[Len(pattern)] = REGEX_DELIMITER

_is_regex_pattern(pattern) ==
    /\ Len(pattern) >= MIN_REGEX_LENGTH
    /\ pattern[1] = REGEX_DELIMITER
    /\ pattern[Len(pattern)] = REGEX_DELIMITER

\* lambda line: Err(message)
AlwaysErr(message) == [kind |-> "always_err", message |-> message]

_create_regex_matcher(config) ==
    LET regex_pattern == Slice(config.pattern, 1, Len(config.pattern) - 1)
        compiled_regex == re_compile(regex_pattern, ~config.case_sensitive)
    IN  IF IsErr(compiled_regex)
        THEN AlwaysErr(<<"Invalid regex pattern: ">> \o compiled_regex.error)
        ELSE [kind |-> "regex", compiled_regex |-> compiled_regex.value]

_create_literal_matcher(config) ==
    [kind |-> "literal",
     search_pattern |-> IF config.case_sensitive THEN config.pattern
                        ELSE Lower(config.pattern),
     lower |-> ~config.case_sensitive]

create_matcher(config) ==
    IF _is_regex_pattern(config.pattern) THEN _create_regex_matcher(config)
    ELSE IF config.pattern # <<>> THEN _create_literal_matcher(config)
    ELSE AlwaysErr(<<"Invalid pattern: ", "''">>)

NoMatchAt(line) == Err(<<"No match at line ", ToString(line.number)>>)

\* the matcher closure of _create_regex_matcher, match being
\* compiled_regex.search(line.content)
regex_matcher(compiled_regex, line, match) ==
    IF match.found
    THEN Ok(MatchContext(line, groupdict(compiled_regex, match)))
    ELSE NoMatchAt(line)

\* matcher(line), for the closure m
call_matcher(m, line) ==
    CASE m.kind = "always_err" -> Err(m.message)
      [] m.kind = "regex" ->
            regex_matcher(m.compiled_regex, line,
                          re_search(m.compiled_regex, line.content))
      [] m.kind = "literal" ->
            LET transformed_content ==
                    IF m.lower THEN Lower(line.content) ELSE line.content
            IN  IF Contains(transformed_content, m.search_pattern)
                THEN Ok(MatchContext(line, NoGroups))
                ELSE NoMatchAt(line)

(***************************************************************************)
(* The composite filter (filter.py: create_filter).                        *)
(***************************************************************************)
\* the loop over expressions in create_filter, with parsed_asts so far
RECURSIVE parse_all(_, _)
parse_all(expressions, parsed_asts) ==
    IF expressions = <<>>
    THEN [kind |-> "composite", parsed_asts |-> parsed_asts]
    ELSE LET parse_r == parse_where_expression(Head(expressions))
         IN  IF IsErr(parse_r)
             THEN AlwaysErr(<<"Parse error: ">> \o parse_r.error)
             ELSE parse_all(Tail(expressions), Append(parsed_asts, parse_r.value))

create_filter(expressions) ==
    IF expressions = <<>> THEN [kind |-> "pass"]
    ELSE parse_all(expressions, <<>>)

\* a conjunction that a false clause does not end: the clauses after it are
\* evaluated, and one that fails decides
and_with_rest(passes, rest) ==
    IF IsErr(rest) THEN rest ELSE Ok(BoolV(passes /\ rest.value.bool))

RECURSIVE composite_filter_EvaluatesAll(_, _)
composite_filter_EvaluatesAll(parsed_asts, ctx) ==
    IF parsed_asts = <<>> THEN Ok(BoolV(TRUE))
    ELSE IF IsErr(evaluate_where(Head(parsed_asts), ctx))
         THEN Err(evaluate_where(Head(parsed_asts), ctx).error)
    ELSE and_with_rest(Truthy(evaluate_where(Head(parsed_asts), ctx).value),
                       composite_filter_EvaluatesAll(Tail(parsed_asts), ctx))

\* a conjunction that answers with the value of the clause that decided
RECURSIVE composite_filter_ReturnsValue(_, _)
composite_filter_ReturnsValue(parsed_asts, ctx) ==
    IF parsed_asts = <<>> THEN Ok(BoolV(TRUE))
    ELSE LET eval_r == evaluate_where(Head(parsed_asts), ctx)
         IN  IF IsErr(eval_r) THEN Err(eval_r.error)
             ELSE IF ~Truthy(eval_r.value) \/ Tail(parsed_asts) = <<>>
                  THEN Ok(eval_r.value)
             ELSE composite_filter_ReturnsValue(Tail(parsed_asts), ctx)

\* composite_filter(context): the loop over parsed_asts
RECURSIVE composite_filter(_, _)
composite_filter(parsed_asts, ctx) ==
    IF parsed_asts = <<>> THEN Ok(BoolV(TRUE))
    ELSE LET eval_r == evaluate_where(Head(parsed_asts), ctx)
         IN  IF IsErr(eval_r) THEN Err(eval_r.error)
             ELSE IF ~Truthy(eval_r.value) THEN Ok(BoolV(FALSE))
             ELSE composite_filter(Tail(parsed_asts), ctx)

\* filter_fn(context), for the closure f
call_filter(f, ctx) ==
    CASE f.kind = "pass" -> Ok(BoolV(TRUE))
      [] f.kind = "always_err" -> Err(f.message)
      [] f.kind = "composite" -> composite_filter(f.parsed_asts, ctx)

(***************************************************************************)
(* Bounds and the inputs the model draws from.                             *)
(***************************************************************************)
\* the longest source (number of items the reader yields)
MaxLines == 2
\* the largest number of --where clauses
MaxClauses == 2

\* --match patterns: two literals, the empty pattern, a regex that does not
\* compile and one that does
Patterns ==
    << <<"E", "R", "R", "O", "R">>,
       <<"o">>,
       <<>>,
       <<"/", "(", "/">>,
       <<"/", "R", ".", "R", "/">> >>

\* --where clauses: one that is true or false by the line, one that fails to
\* evaluate, one with a character no token pattern matches
Clauses ==
    << <<"l", "i", "n", "e", ".", "l", "e", "n", "g", "t", "h", " ", ">", " ", "9">>,
       <<"l", "i", "n", "e", ".", "b", "o", "g", "u", "s", " ", ">", " ", "1">>,
       <<"l", "i", "n", "e", ".", "l", "e", "n", "g", "t", "h", " ", "@", " ", "5">> >>

\* what the reader can yield: two lines and a read error
Items ==
    << [ok |-> TRUE, text |-> <<"E", "R", "R", "O", "R", ":", " ", "t", "i", "m", "e", "o", "u", "t">>],
       [ok |-> TRUE, text |-> <<"I", "N", "F", "O", ":", " ", "o", "k">>],
       [ok |-> FALSE, text |-> <<"Read error: ", "boom">>] >>

\* positional argument: a file path, or the empty string
Sources == {"app.log", ""}

\* the sequences of length at most n over the entries of seq
SeqsUpTo(seq, n) ==
    UNION {{[i \in 1..k |-> seq[f[i]]] : f \in [1..k -> DOMAIN seq]} : k \in 0..n}

\* reader.read_lines(): item i is Ok(Line(i, content)) or Err(message)
LineResults(items) ==
    [i \in DOMAIN items |->
        IF items[i].ok THEN Ok(Line(i, items[i].text)) ELSE Err(items[i].text)]

CLIArgs(src, pattern, case_sensitive, where_clauses) ==
    [source |-> src, pattern |-> pattern, case_sensitive |-> case_sensitive,
     where_clauses |-> where_clauses]

(***************************************************************************)
(* The run (runner.py: run), the pipeline generator (pipeline.py:          *)
(* build_pipeline.pipeline) and the emitter (line_emitter.py: emit).       *)
(* pc is where control is:                                                 *)
(*   "run"       run() was called                                          *)
(*   "construct" the reader is selected; steps 2 to 4 are next             *)
(*   "emit"      the emitter's for loop is about to call next(contexts)    *)
(*   "fetch"     the pipeline's for loop is about to call next(lines)      *)
(*   "stage1", "stage2", "stage3"  the pipeline holds line_result          *)
(*   "yielded"   the pipeline is suspended at a yield; the emitter holds   *)
(*               the outcome                                               *)
(*   "returned"  run() returned run_result                                 *)
(* and, with no run, which where-clause functions are exercised alone:     *)
(*   "tokenize", "parse", "where", "evaluate", "repeat"                    *)
(***************************************************************************)
whereIdle ==
    /\ expression = <<>>
    /\ tokens_result = None
    /\ parse_result = None
    /\ ast = None
    /\ eval_context = None
    /\ eval_result = None
    /\ evaluations = <<>>

Init ==
    /\ args \in {CLIArgs(s, Patterns[p], c, w) :
                    s \in Sources, p \in DOMAIN Patterns, c \in BOOLEAN,
                    w \in SeqsUpTo(Clauses, MaxClauses)}
    /\ source \in {LineResults(items) : items \in SeqsUpTo(Items, MaxLines)}
    /\ pc = "run"
    /\ matcher = None
    /\ filter_fn = None
    /\ next_index = 0
    /\ line_result = None
    /\ context = None
    /\ outcomes = <<>>
    /\ stdout = <<>>
    /\ stderr = <<>>
    /\ run_result = None
    /\ matcher_calls = <<>>
    /\ filter_calls = <<>>
    /\ whereIdle

_select_reader(src) ==
    IF src # "" THEN Ok("FileReader") ELSE Err(<<"Invalid source: ", src>>)

\* run, step 1: select the reader; an Err is returned at once
RunSelectReader ==
    /\ pc = "run"
    /\ LET reader_result == _select_reader(args.source)
       IN  IF IsErr(reader_result)
           THEN /\ run_result' = Err(reader_result.error)
                /\ pc' = "returned"
           ELSE /\ run_result' = run_result
                /\ pc' = "construct"
    /\ UNCHANGED <<args, source, matcher, filter_fn, next_index, line_result,
                   context, outcomes, stdout, stderr, matcher_calls,
                   filter_calls, whereVars>>

\* a construction that reads every line into a list before the pipeline runs
RunConstruct_ReadsAll ==
    /\ pc = "construct"
    /\ matcher' = create_matcher(MatchConfig(args.pattern, args.case_sensitive))
    /\ filter_fn' = create_filter(args.where_clauses)
    /\ next_index' = Len(source)
    /\ pc' = "emit"
    /\ UNCHANGED <<args, source, line_result, context, outcomes, stdout, stderr,
                   run_result, matcher_calls, filter_calls, whereVars>>

\* run, steps 2 to 5: create_matcher, create_filter, build_pipeline, and the
\* two generators made (reader.read_lines(), pipeline(lines)): nothing is
\* read yet, and neither closure is inspected
RunConstruct ==
    /\ pc = "construct"
    /\ matcher' = create_matcher(MatchConfig(args.pattern, args.case_sensitive))
    /\ filter_fn' = create_filter(args.where_clauses)
    /\ pc' = "emit"
    /\ UNCHANGED <<args, source, next_index, line_result, context, outcomes,
                   stdout, stderr, run_result, matcher_calls, filter_calls,
                   whereVars>>

\* emit: the loop over contexts asks the pipeline for its next outcome
EmitterPull ==
    /\ pc = "emit"
    /\ pc' = "fetch"
    /\ UNCHANGED <<args, source, matcher, filter_fn, next_index, line_result,
                   context, outcomes, stdout, stderr, run_result,
                   matcher_calls, filter_calls, whereVars>>

\* a loop over lines that walks the source from its end
PipelineFetch_Reversed ==
    /\ pc = "fetch"
    /\ next_index < Len(source)
    /\ next_index' = next_index + 1
    /\ line_result' = source[Len(source) - next_index]
    /\ pc' = "stage1"
    /\ UNCHANGED <<args, source, matcher, filter_fn, context, outcomes, stdout,
                   stderr, run_result, matcher_calls, filter_calls, whereVars>>

\* pipeline: the loop over lines takes the next item of the source
PipelineFetch ==
    /\ pc = "fetch"
    /\ next_index < Len(source)
    /\ next_index' = next_index + 1
    /\ line_result' = source[next_index + 1]
    /\ pc' = "stage1"
    /\ UNCHANGED <<args, source, matcher, filter_fn, context, outcomes, stdout,
                   stderr, run_result, matcher_calls, filter_calls, whereVars>>

\* the source is exhausted: the pipeline's loop ends, so does the emitter's,
\* and run returns Ok(None)
PipelineExhausted ==
    /\ pc = "fetch"
    /\ next_index = Len(source)
    /\ run_result' = Ok(None)
    /\ pc' = "returned"
    /\ UNCHANGED <<args, source, matcher, filter_fn, next_index, line_result,
                   context, outcomes, stdout, stderr, matcher_calls,
                   filter_calls, whereVars>>

\* an outcome of the pipeline, with the index of the item it was yielded for
Outcome(index, result) == [index |-> index, result |-> result]

\* a stage 1 at which a read error ends the stream
PipelineStage1_Halts ==
    /\ pc = "stage1"
    /\ IF IsErr(line_result)
       THEN /\ outcomes' = Append(outcomes,
                                  Outcome(next_index, Err(line_result.error)))
            /\ run_result' = Err(line_result.error)
            /\ pc' = "returned"
       ELSE /\ outcomes' = outcomes
            /\ run_result' = run_result
            /\ pc' = "stage2"
    /\ UNCHANGED <<args, source, matcher, filter_fn, next_index, line_result,
                   context, stdout, stderr, matcher_calls, filter_calls,
                   whereVars>>

\* stage 1: a read error is yielded as it is; a line goes on to stage 2
PipelineStage1 ==
    /\ pc = "stage1"
    /\ IF IsErr(line_result)
       THEN /\ outcomes' = Append(outcomes,
                                  Outcome(next_index, Err(line_result.error)))
            /\ pc' = "yielded"
       ELSE /\ outcomes' = outcomes
            /\ pc' = "stage2"
    /\ UNCHANGED <<args, source, matcher, filter_fn, next_index, line_result,
                   context, stdout, stderr, run_result, matcher_calls,
                   filter_calls, whereVars>>

\* a stage 2 that asks for the item it holds again when the matcher fails
PipelineStage2_Retries ==
    /\ pc = "stage2"
    /\ LET match_result == call_matcher(matcher, line_result.value)
       IN  IF IsErr(match_result)
           THEN /\ context' = context
                /\ pc' = "stage1"
           ELSE /\ context' = match_result.value
                /\ pc' = "stage3"
    /\ matcher_calls' = matcher_calls
    /\ UNCHANGED <<args, source, matcher, filter_fn, next_index, line_result,
                   outcomes, stdout, stderr, run_result, filter_calls,
                   whereVars>>

\* stage 2: the matcher; any Err is a silent skip
PipelineStage2 ==
    /\ pc = "stage2"
    /\ LET match_result == call_matcher(matcher, line_result.value)
       IN  IF IsErr(match_result)
           THEN /\ context' = context
                /\ pc' = "fetch"
           ELSE /\ context' = match_result.value
                /\ pc' = "stage3"
    /\ matcher_calls' = Append(matcher_calls, next_index)
    /\ UNCHANGED <<args, source, matcher, filter_fn, next_index, line_result,
                   outcomes, stdout, stderr, run_result, filter_calls,
                   whereVars>>

\* a stage 3 that yields the context whatever value the filter returned
PipelineStage3_IgnoresValue ==
    /\ pc = "stage3"
    /\ LET filter_result == call_filter(filter_fn, context)
       IN  IF IsErr(filter_result)
           THEN outcomes' = Append(outcomes,
                                   Outcome(next_index, Err(filter_result.error)))
           ELSE outcomes' = Append(outcomes, Outcome(next_index, Ok(context)))
    /\ pc' = "yielded"
    /\ filter_calls' = Append(filter_calls, next_index)
    /\ UNCHANGED <<args, source, matcher, filter_fn, next_index, line_result,
                   context, stdout, stderr, run_result, matcher_calls,
                   whereVars>>

\* a stage 3 that skips a line whose filter failed, as stage 2 does
PipelineStage3_SkipsErr ==
    /\ pc = "stage3"
    /\ LET filter_result == call_filter(filter_fn, context)
       IN  IF IsOk(filter_result) /\ Truthy(filter_result.value)
           THEN /\ outcomes' = Append(outcomes,
                                      Outcome(next_index, Ok(context)))
                /\ pc' = "yielded"
           ELSE /\ outcomes' = outcomes
                /\ pc' = "fetch"
    /\ filter_calls' = Append(filter_calls, next_index)
    /\ UNCHANGED <<args, source, matcher, filter_fn, next_index, line_result,
                   context, stdout, stderr, run_result, matcher_calls,
                   whereVars>>

\* stage 3: the filter; an Err is yielded, a truthy Ok yields the context,
\* a falsy Ok is a silent skip
PipelineStage3 ==
    /\ pc = "stage3"
    /\ LET filter_result == call_filter(filter_fn, context)
       IN  IF IsErr(filter_result)
           THEN /\ outcomes' = Append(outcomes,
                                      Outcome(next_index, Err(filter_result.error)))
                /\ pc' = "yielded"
           ELSE IF Truthy(filter_result.value)
                THEN /\ outcomes' = Append(outcomes,
                                           Outcome(next_index, Ok(context)))
                     /\ pc' = "yielded"
           ELSE /\ outcomes' = outcomes
                /\ pc' = "fetch"
    /\ filter_calls' = Append(filter_calls, next_index)
    /\ UNCHANGED <<args, source, matcher, filter_fn, next_index, line_result,
                   context, stdout, stderr, run_result, matcher_calls,
                   whereVars>>

\* emit: the loop body prints the outcome it was given (show_line_numbers is
\* False in run) and goes round
EmitterPrint ==
    /\ pc = "yielded"
    /\ LET result == outcomes[Len(outcomes)].result
       IN  IF IsOk(result)
           THEN /\ stdout' = Append(stdout, result.value.line.content)
                /\ stderr' = stderr
           ELSE /\ stdout' = stdout
                /\ stderr' = Append(stderr, <<"Error: ">> \o result.error)
    /\ pc' = "emit"
    /\ UNCHANGED <<args, source, matcher, filter_fn, next_index, line_result,
                   context, outcomes, run_result, matcher_calls, filter_calls,
                   whereVars>>

\* emit: print to a closed stdout raises BrokenPipeError; run catches it and
\* returns Ok(None) without pulling again
EmitterBrokenPipe ==
    /\ pc = "yielded"
    /\ IsOk(outcomes[Len(outcomes)].result)
    /\ run_result' = Ok(None)
    /\ pc' = "returned"
    /\ UNCHANGED <<args, source, matcher, filter_fn, next_index, line_result,
                   context, outcomes, stdout, stderr, matcher_calls,
                   filter_calls, whereVars>>

Next ==
    \/ RunSelectReader
    \/ RunConstruct
    \/ EmitterPull
    \/ PipelineFetch
    \/ PipelineExhausted
    \/ PipelineStage1
    \/ PipelineStage2
    \/ PipelineStage3
    \/ EmitterPrint
    \/ EmitterBrokenPipe

Spec == Init /\ [][Next]_vars

(***************************************************************************)
(* The where-clause functions exercised alone: tokenize on every short     *)
(* text over a small alphabet (SpecTok), parse_where_expression and        *)
(* evaluate_where on written clauses (SpecWhere), evaluate_where on ASTs   *)
(* built from every pair of operands and every operator (SpecEval).        *)
(***************************************************************************)
\* the longest text handed to tokenize
MaxExprLen == 3
\* the longest line content of an evaluation context
MaxContentLen == 2
\* integer literals range over -MaxInt..MaxInt
MaxInt == 1

\* a letter, a digit, a character no token pattern matches, whitespace, the
\* two characters of the comparison operators, a quote
TokAlphabet == <<"a", "1", "@", " ", ">", "=", "\"">>

\* clauses handed to parse_where_expression
WhereClauses ==
    << <<"n", "o", "t", " ", "l", "i", "n", "e", ".", "c", "o", "n", "t", "a", "i", "n", "s", "(", "\"", "x", "\"", ")", " ", "=", "=", " ", "t", "r", "u", "e">>,
       <<"n", "o", "t", " ", "l", "i", "n", "e", ".", "c", "o", "n", "t", "a", "i", "n", "s", "(", "\"", "x", "\"", ")", " ", "=", "=", " ", "l", "i", "n", "e", ".", "c", "o", "n", "t", "a", "i", "n", "s", "(", "\"", "\"", ")">>,
       <<"n", "o", "t", " ", "l", "i", "n", "e", ".", "c", "o", "n", "t", "a", "i", "n", "s", "(", "\"", "x", "\"", ")">>,
       <<"l", "i", "n", "e", ".", "c", "o", "n", "t", "a", "i", "n", "s", "(", "\"", "x", "\"", ")", " ", "=", "=", " ", "l", "i", "n", "e", ".", "c", "o", "n", "t", "a", "i", "n", "s", "(", "\"", "\"", ")">>,
       <<"n", "o", "t", " ", "(", "l", "i", "n", "e", ".", "c", "o", "n", "t", "a", "i", "n", "s", "(", "\"", "x", "\"", ")", " ", "=", "=", " ", "l", "i", "n", "e", ".", "c", "o", "n", "t", "a", "i", "n", "s", "(", "\"", "\"", ")", ")">>,
       <<"l", "i", "n", "e", ".", "l", "e", "n", "g", "t", "h", " ", "=", "=", " ", "\"", "a", "\"">>,
       <<"l", "i", "n", "e", ".", "c", "o", "n", "t", "a", "i", "n", "s", "(", "\"", "x", "\"", ")", " ", ">", " ", "0">>,
       <<"l", "i", "n", "e", ".", "b", "o", "g", "u", "s", " ", ">", " ", "1">>,
       <<"l", "i", "n", "e", ".", "l", "e", "n", "g", "t", "h", " ", "@", " ", "5">> >>

GroupName == <<"g">>
GroupMaps == {NoGroups, [n \in {GroupName} |-> StrV(<<"a">>)]}

EvalContexts ==
    {MatchContext(Line(1, c), g) :
        c \in SeqsUpTo(<<"x", "a">>, MaxContentLen), g \in GroupMaps}

BinaryOperators == {">", "<", ">=", "<=", "==", "!=", "and", "or"}

\* leaves of every runtime type, and leaves that fail to evaluate
Operands ==
    {Literal(IntV(n)) : n \in (0 - MaxInt)..MaxInt}
    \cup {Literal(StrV(s)) : s \in {<<>>, <<"a">>, <<"x">>}}
    \cup {Literal(BoolV(b)) : b \in BOOLEAN}
    \cup {Attribute(LineName, a) :
            a \in {LengthName, ContentName, <<"b", "o", "g", "u", "s">>}}
    \cup {MethodCall(LineName, ContainsName, a) : a \in {<<>>, <<<<"x">>>>}}
    \cup {GroupAccess(GroupName)}

Asts ==
    Operands
    \cup {UnaryOp("not", x) : x \in Operands}
    \cup {BinaryOp(l, op, r) : l \in Operands, op \in BinaryOperators,
                               r \in Operands}

runIdle ==
    /\ args = None
    /\ source = <<>>
    /\ matcher = None
    /\ filter_fn = None
    /\ next_index = 0
    /\ line_result = None
    /\ context = None
    /\ outcomes = <<>>
    /\ stdout = <<>>
    /\ stderr = <<>>
    /\ run_result = None
    /\ matcher_calls = <<>>
    /\ filter_calls = <<>>

\* tokenize(expression)
Tokenize ==
    /\ pc \in {"tokenize", "parse", "where"}
    /\ tokens_result = None
    /\ tokens_result' = tokenize(expression)
    /\ UNCHANGED <<runVars, expression, parse_result, ast, eval_context,
                   eval_result, evaluations>>

\* parse_where_expression(expression); the AST of an Ok is kept for evaluation
ParseWhere ==
    /\ pc \in {"parse", "where"}
    /\ parse_result = None
    /\ parse_result' = parse_where_expression(expression)
    /\ ast' = IF IsOk(parse_result') THEN parse_result'.value ELSE ast
    /\ UNCHANGED <<runVars, expression, tokens_result, eval_context,
                   eval_result, evaluations>>

\* one call of evaluate_where: what it was given and what it returned
Evaluation(node, ctx, result) ==
    [ast |-> node, context |-> ctx, result |-> result]

\* evaluate_where(ast, eval_context)
Evaluate ==
    /\ pc \in {"where", "evaluate"}
    /\ ast # None
    /\ eval_result = None
    /\ eval_result' = evaluate_where(ast, eval_context)
    /\ evaluations' = Append(evaluations,
                             Evaluation(ast, eval_context, eval_result'))
    /\ UNCHANGED <<runVars, expression, tokens_result, parse_result, ast,
                   eval_context>>

TokInit ==
    /\ runIdle
    /\ pc = "tokenize"
    /\ expression \in SeqsUpTo(TokAlphabet, MaxExprLen)
    /\ tokens_result = None
    /\ parse_result = None
    /\ ast = None
    /\ eval_context = None
    /\ eval_result = None
    /\ evaluations = <<>>

TokNext == Tokenize

SpecTok == TokInit /\ [][TokNext]_vars

WhereInit ==
    /\ runIdle
    /\ pc = "where"
    /\ expression \in Range(WhereClauses)
    /\ tokens_result = None
    /\ parse_result = None
    /\ ast = None
    /\ eval_context \in EvalContexts
    /\ eval_result = None
    /\ evaluations = <<>>

WhereNext == Tokenize \/ ParseWhere \/ Evaluate

SpecWhere == WhereInit /\ [][WhereNext]_vars

EvalInit ==
    /\ runIdle
    /\ pc = "evaluate"
    /\ expression = <<>>
    /\ tokens_result = None
    /\ parse_result = None
    /\ ast \in Asts
    /\ eval_context \in EvalContexts
    /\ eval_result = None
    /\ evaluations = <<>>

EvalNext == Evaluate

SpecEval == EvalInit /\ [][EvalNext]_vars

(***************************************************************************)
(* Notions the claims are stated with.                                     *)
(***************************************************************************)
\* some --where clause fails to tokenize or parse
SomeClauseFailsToParse ==
    \E k \in DOMAIN args.where_clauses :
        IsErr(parse_where_expression(args.where_clauses[k]))

\* the pattern is a regex that re.compile rejects
PatternFailsToCompile ==
    /\ _is_regex_pattern(args.pattern)
    /\ IsErr(re_compile(Slice(args.pattern, 1, Len(args.pattern) - 1), FALSE))

\* run got past the selection of the reader
ReaderSelected == args.source # ""

\* item i of the source has been fully dealt with by the pipeline
Resolved(i) ==
    \/ i < next_index
    \/ i = next_index /\ pc \in {"yielded", "emit", "fetch", "returned"}

\* the positions in outcomes of the outcomes yielded for item i
OutcomesFor(i) == {k \in DOMAIN outcomes : outcomes[k].index = i}

\* the matcher's answer for item i, a line
MatchOf(i) == call_matcher(matcher, source[i].value)

\* the filter's answer for item i, a line the matcher matched
FilterOf(i) == call_filter(filter_fn, MatchOf(i).value)

\* the pipeline stopped although the source has more items
StoppedEarly == pc = "returned" /\ ReaderSelected /\ next_index < Len(source)

\* the offsets of a text at which no token pattern matches, as the scan
\* from offset pos meets them
RECURSIVE UnmatchedOffsets(_, _)
UnmatchedOffsets(s, pos) ==
    IF pos >= Len(s) THEN {}
    ELSE LET m == TOKEN_RE(s, pos)
         IN  IF m.type = "NONE" THEN {pos} \cup UnmatchedOffsets(s, pos + 1)
             ELSE UnmatchedOffsets(s, m.end)

ClauseLengthAt5 == <<"l", "i", "n", "e", ".", "l", "e", "n", "g", "t", "h", " ", "@", " ", "5">>
ClauseBogus == <<"l", "i", "n", "e", ".", "b", "o", "g", "u", "s", " ", ">", " ", "1">>
ClauseNotContainsTrue == <<"n", "o", "t", " ", "l", "i", "n", "e", ".", "c", "o", "n", "t", "a", "i", "n", "s", "(", "\"", "x", "\"", ")", " ", "=", "=", " ", "t", "r", "u", "e">>
ClauseNotContainsTerm == <<"n", "o", "t", " ", "l", "i", "n", "e", ".", "c", "o", "n", "t", "a", "i", "n", "s", "(", "\"", "x", "\"", ")", " ", "=", "=", " ", "l", "i", "n", "e", ".", "c", "o", "n", "t", "a", "i", "n", "s", "(", "\"", "\"", ")">>
LineErrorTimeout == <<"E", "R", "R", "O", "R", ":", " ", "t", "i", "m", "e", "o", "u", "t">>
LineInfoOk == <<"I", "N", "F", "O", ":", " ", "o", "k">>
PatternERROR == <<"E", "R", "R", "O", "R">>

(***************************************************************************)
(* C1.  When a where-clause fails to tokenize or parse, the run aborts     *)
(* before any item is requested from the reader: nothing is read, no       *)
(* outcome is produced, and the failure is reported once.  The code does   *)
(* otherwise: create_filter returns a filter that fails every context, so  *)
(* the lines are read and each matching line reports the parse error.      *)
(***************************************************************************)
C1_ParseFailureAbortsBeforeReading ==
    SomeClauseFailsToParse =>
        /\ next_index = 0
        /\ outcomes = <<>>
        /\ Len(stderr) <= 1

(***************************************************************************)
(* C2.  A regex that fails to compile is fatal at construction: the run    *)
(* reports the compile error and processes no line; it does not finish as  *)
(* a successful run with zero outcomes.  The code does otherwise: the      *)
(* failing matcher is called on every line, every Err is taken for a       *)
(* non-match, and run returns Ok(None).                                    *)
(***************************************************************************)
C2_InvalidRegexIsFatal ==
    (PatternFailsToCompile /\ ReaderSelected /\ pc = "returned") =>
        /\ IsErr(run_result)
        /\ next_index = 0

(***************************************************************************)
(* C3.  An empty pattern makes matcher construction fail; it is never      *)
(* turned into a matcher whose failure is observed per line and discarded  *)
(* as a non-match.  The code does otherwise: create_matcher returns a      *)
(* matcher that fails each line, and the pipeline skips each line.         *)
(***************************************************************************)
C3_EmptyPatternFailsConstruction ==
    args.pattern = <<>> => matcher_calls = <<>>

(***************************************************************************)
(* C4.  tokenize fails, with an error that reports the offset, whenever    *)
(* the text has a character that no token pattern matches, wherever it     *)
(* stands.  The code does otherwise: finditer passes over such a           *)
(* character, and only what follows the last token is noticed.             *)
(***************************************************************************)
C4_UnmatchedCharacterFails ==
    (pc = "tokenize" /\ tokens_result # None
        /\ UnmatchedOffsets(expression, 0) # {}) =>
        /\ IsErr(tokens_result)
        /\ \E p \in UnmatchedOffsets(expression, 0) :
               tokens_result.error[2] = ToString(p)

(***************************************************************************)
(* C5.  Outcomes come strictly in input order: every item yields at most   *)
(* one outcome, an outcome is yielded while its item is the last one       *)
(* requested (before the next is requested), and each outcome is the image *)
(* of its item: an Ok outcome carries that item's line, a read error's     *)
(* outcome that item's message.                                            *)
(***************************************************************************)
C5_OutcomesInInputOrder ==
    /\ \A k \in DOMAIN outcomes : outcomes[k].index \in 1..next_index
    /\ \A j, k \in DOMAIN outcomes :
           j < k => outcomes[j].index < outcomes[k].index
    /\ \A k \in DOMAIN outcomes :
           LET item == source[outcomes[k].index]
               result == outcomes[k].result
           IN  /\ IsOk(result) => IsOk(item) /\ result.value.line = item.value
               /\ IsErr(item) => result = Err(item.error)
    /\ pc = "yielded" => outcomes[Len(outcomes)].index = next_index
    /\ pc \in {"emit", "fetch", "stage1", "stage2", "stage3"} =>
           Len(stdout) + Len(stderr) = Len(outcomes)
    /\ \A i \in 1..Len(source) :
           ~Resolved(i) => OutcomesFor(i) = {}

\* two items, an outcome for each, in order
C5_Witness ==
    /\ Len(outcomes) = 2
    /\ outcomes[1].index = 1
    /\ outcomes[2].index = 2
    /\ IsOk(outcomes[2].result)

(***************************************************************************)
(* C6.  An item gives a successful outcome if and only if it was read      *)
(* successfully, the matcher matched it and the filter returned true for   *)
(* its MatchContext, and the outcome carries that MatchContext; a          *)
(* non-match or a filter result of false gives no outcome at all.  With    *)
(* the lines "ERROR: timeout", "INFO: ok" and the literal pattern          *)
(* "ERROR" there is exactly one outcome, for line 1.                       *)
(***************************************************************************)
Passes(i) ==
    /\ IsOk(source[i])
    /\ IsOk(MatchOf(i))
    /\ FilterOf(i) = Ok(BoolV(TRUE))

ScenarioA ==
    /\ ReaderSelected
    /\ args.pattern = PatternERROR
    /\ ~args.case_sensitive
    /\ args.where_clauses = <<>>
    /\ source = <<Ok(Line(1, LineErrorTimeout)), Ok(Line(2, LineInfoOk))>>

C6_SuccessIffMatchedAndFilterTrue ==
    /\ \A i \in 1..Len(source) :
           Resolved(i) =>
               /\ Passes(i) <=>
                      \E k \in OutcomesFor(i) : IsOk(outcomes[k].result)
               /\ Passes(i) =>
                      \A k \in OutcomesFor(i) :
                          outcomes[k].result = Ok(MatchOf(i).value)
               /\ (IsOk(source[i]) /\ (IsErr(MatchOf(i))
                                       \/ FilterOf(i) = Ok(BoolV(FALSE))))
                      => OutcomesFor(i) = {}
    /\ (ScenarioA /\ pc = "returned") =>
           outcomes = <<Outcome(1, Ok(MatchContext(Line(1, LineErrorTimeout),
                                                   NoGroups)))>>

\* scenario A has run to the end of the source
C6_Witness ==
    /\ ScenarioA
    /\ pc = "returned"
    /\ next_index = 2
    /\ Len(outcomes) = 1
    /\ stdout = <<LineErrorTimeout>>

(***************************************************************************)
(* C7.  A failed read item, at any position, gives exactly one failed      *)
(* outcome with the reader's message unchanged; neither the matcher nor    *)
(* the filter is run for it; the stream does not stop at it, and the       *)
(* matcher is run for every later item that is a line.                     *)
(***************************************************************************)
C7_ReadErrorPassedThrough ==
    /\ \A i \in 1..Len(source) :
           (Resolved(i) /\ IsErr(source[i])) =>
               /\ Cardinality(OutcomesFor(i)) = 1
               /\ \A k \in OutcomesFor(i) :
                      outcomes[k].result = Err(source[i].error)
               /\ i \notin Range(matcher_calls)
               /\ i \notin Range(filter_calls)
    /\ \A i \in 1..Len(source) :
           (Resolved(i) /\ IsOk(source[i])) => i \in Range(matcher_calls)
    /\ (StoppedEarly /\ outcomes # <<>>) =>
           IsOk(outcomes[Len(outcomes)].result)

\* a read error first, and the line after it matched and yielded
C7_Witness ==
    /\ Len(source) = 2
    /\ IsErr(source[1])
    /\ Len(outcomes) = 2
    /\ outcomes[1].result = Err(source[1].error)
    /\ IsOk(outcomes[2].result)
    /\ matcher_calls = <<2>>

(***************************************************************************)
(* C8.  An EvaluationError while filtering a matching line (as with the    *)
(* clause line.bogus > 1) gives exactly one failed outcome, for that line  *)
(* only; the stream does not stop at it, later lines are processed, and    *)
(* lines that do not match still give no outcome.                          *)
(***************************************************************************)
\* item i is a line that matches and whose filter evaluation fails
EvaluationFails(i) ==
    /\ IsOk(source[i])
    /\ IsOk(MatchOf(i))
    /\ filter_fn.kind = "composite"
    /\ IsErr(FilterOf(i))

C8_EvaluationErrorPerLine ==
    /\ \A i \in 1..Len(source) :
           (Resolved(i) /\ EvaluationFails(i)) =>
               /\ Cardinality(OutcomesFor(i)) = 1
               /\ \A k \in OutcomesFor(i) :
                      /\ outcomes[k].result = Err(FilterOf(i).error)
                      /\ outcomes[k].result.error[1] = "Evaluation error: "
    /\ \A i \in 1..Len(source) :
           (Resolved(i) /\ IsOk(source[i]) /\ IsErr(MatchOf(i))) =>
               OutcomesFor(i) = {}
    /\ (StoppedEarly /\ outcomes # <<>>) =>
           ~EvaluationFails(outcomes[Len(outcomes)].index)
    /\ \A i \in 1..Len(source) :
           (Resolved(i) /\ IsOk(source[i])) => i \in Range(matcher_calls)

\* line.bogus > 1 with the pattern ERROR: line 1 matches and fails to
\* evaluate, line 2 does not match and was still looked at
C8_Witness ==
    /\ args.where_clauses = <<ClauseBogus>>
    /\ args.pattern = PatternERROR
    /\ source = <<Ok(Line(1, LineErrorTimeout)), Ok(Line(2, LineInfoOk))>>
    /\ pc = "returned"
    /\ Len(outcomes) = 1
    /\ outcomes[1].index = 1
    /\ IsErr(outcomes[1].result)
    /\ matcher_calls = <<1, 2>>

(***************************************************************************)
(* C9.  Evaluating a comparison (>, <, >=, <=, ==, !=) whose two operands  *)
(* evaluate to runtime values of different types returns an                *)
(* EvaluationError, never a boolean.                                       *)
(***************************************************************************)
\* ast is a comparison whose operands evaluate, in eval_context, to values
\* of different types
MixedTypeComparison ==
    /\ ast # None
    /\ ast.node = "BinaryOp"
    /\ ast.op \in {">", "<", ">=", "<=", "==", "!="}
    /\ LET l == _evaluate_node(ast.left, eval_context)
           r == _evaluate_node(ast.right, eval_context)
       IN  /\ IsOk(l)
           /\ IsOk(r)
           /\ l.value.type # r.value.type

C9_MixedTypeComparisonFails ==
    (MixedTypeComparison /\ eval_result # None) => IsErr(eval_result)

(***************************************************************************)
(* C10 as stated.  The clause  not line.contains("x") == true  parses,     *)
(* and evaluated on a line that does not contain "x" it yields true.       *)
(***************************************************************************)
C10_NotContainsEqualsTrue ==
    (expression = ClauseNotContainsTrue /\ parse_result # None) =>
        /\ IsOk(parse_result)
        /\ (eval_result # None
            /\ ~Contains(eval_context.line.content, <<"x">>))
               => eval_result = Ok(BoolV(TRUE))

(***************************************************************************)
(* C10 amended.  The clause  not line.contains("x") == true  fails to      *)
(* parse, true being a bare identifier (Unexpected identifier: true), and  *)
(* nothing is evaluated.  With a right operand the grammar has, as in      *)
(* not line.contains("x") == line.contains("") , the clause parses to the  *)
(* comparison of the negated call with the right operand (the negation     *)
(* applies to line.contains("x") only) and yields true on a line that      *)
(* does not contain "x".                                                   *)
(***************************************************************************)
ContainsX == MethodCall(LineName, ContainsName, <<<<"x">>>>)
ContainsEmpty == MethodCall(LineName, ContainsName, <<<<>>>>)

C10_NotBindsTighterThanComparison ==
    /\ (expression = ClauseNotContainsTrue /\ parse_result # None) =>
           /\ parse_result =
                  Err(<<"Unexpected identifier: ", "t", "r", "u", "e">>)
           /\ ast = None
           /\ eval_result = None
    /\ (expression = ClauseNotContainsTerm /\ parse_result # None) =>
           /\ parse_result =
                  Ok(BinaryOp(UnaryOp("not", ContainsX), "==", ContainsEmpty))
           /\ (eval_result # None
               /\ ~Contains(eval_context.line.content, <<"x">>))
                  => eval_result = Ok(BoolV(TRUE))

\* the clause with a right operand of the grammar, parsed and evaluated to
\* true on a line without "x"
C10_Witness ==
    /\ expression = ClauseNotContainsTerm
    /\ parse_result # None
    /\ IsOk(parse_result)
    /\ ~Contains(eval_context.line.content, <<"x">>)
    /\ eval_context.line.content # <<>>
    /\ eval_result = Ok(BoolV(TRUE))


(***************************************************************************)
(* Runs with named groups (SpecGroups): the run, the pipeline and the      *)
(* emitter as above, started with regex patterns that declare the group    *)
(* "code", lines that carry a status, and clauses that read the group.     *)
(***************************************************************************)
\* the pattern of the help text of the command line (cli/parser.py), the
\* same pattern in the syntax of re, a pattern whose group is optional, and
\* a literal
PatternStatusHelp == <<"/", "s", "t", "a", "t", "u", "s", "=", "(", "?", "<", "c", "o", "d", "e", ">", "\\", "d", "+", ")", "/">>
PatternStatusP == <<"/", "s", "t", "a", "t", "u", "s", "=", "(", "?", "P", "<", "c", "o", "d", "e", ">", "\\", "d", "+", ")", "/">>
PatternOptionalCode == <<"/", "=", "(", "?", "P", "<", "c", "o", "d", "e", ">", "5", ")", "?", "0", "/">>
PatternStatusLiteral == <<"s", "t", "a", "t", "u", "s">>

GroupPatterns ==
    <<PatternStatusHelp, PatternStatusP, PatternOptionalCode,
      PatternStatusLiteral>>

LineStatus500 == <<"s", "t", "a", "t", "u", "s", "=", "5", "0", "0">>
LineStatus0 == <<"s", "t", "a", "t", "u", "s", "=", "0">>

GroupItems ==
    << [ok |-> TRUE, text |-> LineStatus500],
       [ok |-> TRUE, text |-> LineStatus0],
       [ok |-> TRUE, text |-> <<"o", "k">>] >>

ClauseCodeIs500 == <<"g", "r", "o", "u", "p", "(", "\"", "c", "o", "d", "e", "\"", ")", " ", "=", "=", " ", "\"", "5", "0", "0", "\"">>
ClauseCodeIs5 == <<"g", "r", "o", "u", "p", "(", "\"", "c", "o", "d", "e", "\"", ")", " ", "=", "=", " ", "\"", "5", "\"">>

GroupClauses == <<ClauseCodeIs500, ClauseCodeIs5>>

CodeName == <<"c", "o", "d", "e">>

GroupsInit ==
    /\ args \in {CLIArgs(s, GroupPatterns[p], c, w) :
                    s \in Sources, p \in DOMAIN GroupPatterns, c \in BOOLEAN,
                    w \in SeqsUpTo(GroupClauses, MaxClauses)}
    /\ source \in {LineResults(items) : items \in SeqsUpTo(GroupItems, MaxLines)}
    /\ pc = "run"
    /\ matcher = None
    /\ filter_fn = None
    /\ next_index = 0
    /\ line_result = None
    /\ context = None
    /\ outcomes = <<>>
    /\ stdout = <<>>
    /\ stderr = <<>>
    /\ run_result = None
    /\ matcher_calls = <<>>
    /\ filter_calls = <<>>
    /\ whereIdle

SpecGroups == GroupsInit /\ [][Next]_vars

(***************************************************************************)
(* C11.  Scenario B: with the one line "status=500", the pattern           *)
(* /status=(?<code>\d+)/ and the clause group("code") == "500", the run    *)
(* gives exactly one successful outcome, whose groups hold code = "500":   *)
(* the (?<name>...) syntax of the help text is accepted.  The code does    *)
(* otherwise: re.compile rejects (?<code>...) ("unknown extension ?<c at   *)
(* position 8"), the matcher fails every line and the run gives no         *)
(* outcome.                                                                *)
(***************************************************************************)
ScenarioB ==
    /\ ReaderSelected
    /\ args.pattern = PatternStatusHelp
    /\ args.where_clauses = <<ClauseCodeIs500>>
    /\ source = <<Ok(Line(1, LineStatus500))>>

C11_HelpSyntaxGivesOneOutcome ==
    (ScenarioB /\ pc = "returned") =>
        outcomes = <<Outcome(1, Ok(MatchContext(
                        Line(1, LineStatus500),
                        [n \in {CodeName} |-> StrV(<<"5", "0", "0">>)])))>>


(***************************************************************************)
(* C12.  Whitespace is skipped and never emitted as a token: adding        *)
(* whitespace before, between or after tokens (trailing whitespace         *)
(* included) leaves the kinds and texts of the tokens unchanged and never  *)
(* turns a success into a failure; "line.length > 120" gives IDENT, DOT,   *)
(* IDENT, GT, NUMBER.  Stated on a text and the text without one of its    *)
(* whitespace characters, where that character stands at a token boundary  *)
(* of the shorter text.  The code does otherwise: a whitespace match does  *)
(* not advance position, so whitespace after the last token fails the      *)
(* final check "position < len(expression)".                               *)
(***************************************************************************)
\* the kinds and texts of a token list, without the positions
KindsAndTexts(tokens) ==
    [k \in DOMAIN tokens |-> <<tokens[k].type, tokens[k].value>>]

\* the text without the character at offset i
Without(s, i) == Slice(s, 0, i) \o Slice(s, i + 1, Len(s))

\* the offsets of a text at which a token starts or ends, and its two ends
TokenBoundaries(s, tokens) ==
    {0, Len(s)}
    \cup {tokens[k].position : k \in DOMAIN tokens}
    \cup {tokens[k].position + Len(tokens[k].value) : k \in DOMAIN tokens}

\* the text is shorter with whitespace added at offset i, a token boundary of
\* shorter, whose tokens are given
AddsWhitespaceAt(i, shorter, tokens_r) ==
    /\ IsSpace(At(expression, i))
    /\ IsOk(tokens_r)
    /\ i \in TokenBoundaries(shorter, tokens_r.value)

ClauseLengthOver120 == <<"l", "i", "n", "e", ".", "l", "e", "n", "g", "t", "h", " ", ">", " ", "1", "2", "0">>

C12_WhitespaceIsInsignificant ==
    /\ KindsAndTexts(tokenize(ClauseLengthOver120).value) =
           << <<"IDENT", <<"l", "i", "n", "e">>>>,
              <<"DOT", <<".">>>>,
              <<"IDENT", <<"l", "e", "n", "g", "t", "h">>>>,
              <<"GT", <<">">>>>,
              <<"NUMBER", <<"1", "2", "0">>>> >>
    /\ (pc = "tokenize" /\ tokens_result # None) =>
           \A i \in 0..(Len(expression) - 1) :
               AddsWhitespaceAt(i, Without(expression, i),
                                tokenize(Without(expression, i))) =>
                   /\ IsOk(tokens_result)
                   /\ KindsAndTexts(tokens_result.value) =
                          KindsAndTexts(tokenize(Without(expression, i)).value)


(***************************************************************************)
(* C13.  When tokenize returns Ok, the positions of the tokens are         *)
(* strictly increasing and the tokens tile the text: every character is    *)
(* inside exactly one token, or is whitespace between tokens.  The code    *)
(* does otherwise: a character no token pattern matches, standing before   *)
(* the end of the last token, is passed over by finditer and the result    *)
(* is Ok with that character in no token.                                  *)
(***************************************************************************)
\* the tokens whose text covers offset i
TokensCovering(tokens, i) ==
    {k \in DOMAIN tokens :
        /\ tokens[k].position <= i
        /\ i < tokens[k].position + Len(tokens[k].value)}

C13_TokensTileTheText ==
    (pc = "tokenize" /\ tokens_result # None /\ IsOk(tokens_result)) =>
        LET tokens == tokens_result.value
        IN  /\ \A j, k \in DOMAIN tokens :
                   j < k => tokens[j].position < tokens[k].position
            /\ \A i \in 0..(Len(expression) - 1) :
                   \/ Cardinality(TokensCovering(tokens, i)) = 1
                   \/ /\ TokensCovering(tokens, i) = {}
                      /\ IsSpace(At(expression, i))


(***************************************************************************)
(* C14.  Every MatchContext a matcher produces has groups whose values are *)
(* all text, never null, and whose keys are exactly the named groups the   *)
(* pattern declares (none for a literal pattern); group(name) on a         *)
(* declared name therefore evaluates to text.  The code does otherwise:    *)
(* groupdict() gives None for a named group that took no part in the       *)
(* match, and the matcher stores the dictionary as it is.                  *)
(***************************************************************************)
\* the named groups the pattern of the run declares
DeclaredGroups ==
    IF matcher.kind = "regex" THEN matcher.compiled_regex.names ELSE {}

C14_GroupsAreText ==
    (context # None) =>
        /\ DOMAIN context.groups = DeclaredGroups
        /\ \A n \in DeclaredGroups :
               /\ context.groups[n].type = "str"
               /\ IsOk(_evaluate_node(GroupAccess(n), context))
               /\ _evaluate_node(GroupAccess(n), context).value.type = "str"


(***************************************************************************)
(* The parser exercised alone (SpecParse) on texts written from the        *)
(* grammar of the module's docstring (where_parser.py, "Grammar:"):        *)
(*     or_expr  := and_expr ('or' and_expr)*                               *)
(*     and_expr := cmp_expr ('and' cmp_expr)*                              *)
(*     cmp_expr := term (comparator term)?                                 *)
(*     term     := 'not' term | atom                                       *)
(*     atom     := NUMBER | STRING | attribute | method_call | group_call  *)
(*                 | '(' expr ')'                                          *)
(* Text(t) writes the AST t as that grammar derives it, with one blank     *)
(* between tokens of an operator and its operands and a pair of            *)
(* parentheses exactly where the operand is not of the level the grammar   *)
(* asks for.                                                               *)
(***************************************************************************)
\* the largest number of operators in a written expression
MaxOps == 2

ComparatorTexts == {">", "<", ">=", "<=", "==", "!="}

\* the level of the grammar that derives t: 0 or_expr, 1 and_expr,
\* 2 cmp_expr with a comparator, 3 term with a not, 4 atom
Level(t) ==
    IF t.node = "BinaryOp"
    THEN CASE t.op = "or" -> 0
           [] t.op = "and" -> 1
           [] OTHER -> 2
    ELSE IF t.node = "UnaryOp" THEN 3
    ELSE 4

\* an operator as the characters of its token
OpText(op) ==
    CASE op = "or" -> <<"o", "r">>
      [] op = "and" -> <<"a", "n", "d">>
      [] op = "not" -> <<"n", "o", "t">>
      [] op = ">" -> <<">">>
      [] op = "<" -> <<"<">>
      [] op = ">=" -> <<">", "=">>
      [] op = "<=" -> <<"<", "=">>
      [] op = "==" -> <<"=", "=">>
      [] op = "!=" -> <<"!", "=">>

Quoted(s) == <<"\"">> \o s \o <<"\"">>

\* '(' expr ')' where the operand is of a looser level than min
InParens(text, needed) ==
    IF needed THEN <<"(">> \o text \o <<")">> ELSE text

RECURSIVE Text(_)
Operand(t, min) == InParens(Text(t), Level(t) < min)

Text(t) ==
    CASE t.node = "Literal" ->
           IF t.value.type = "int" THEN <<DigitSeq[t.value.int + 1]>>
           ELSE Quoted(t.value.str)
      [] t.node = "Attribute" -> t.object \o <<".">> \o t.attr
      [] t.node = "MethodCall" ->
           t.object \o <<".">> \o t.method \o <<"(">>
           \o (IF t.args = <<>> THEN <<>> ELSE Quoted(t.args[1])) \o <<")">>
      [] t.node = "GroupAccess" ->
           <<"g", "r", "o", "u", "p", "(">> \o Quoted(t.name) \o <<")">>
      [] t.node = "UnaryOp" -> OpText(t.op) \o <<" ">> \o Operand(t.operand, 3)
      [] t.node = "BinaryOp" ->
           Operand(t.left, CASE t.op = "or" -> 0 [] t.op = "and" -> 1 [] OTHER -> 3)
           \o <<" ">> \o OpText(t.op) \o <<" ">>
           \o Operand(t.right, CASE t.op = "or" -> 1 [] t.op = "and" -> 2 [] OTHER -> 3)

\* the operands without an operator, and the binary operators, that written
\* expressions are built from
Leaves == {Literal(IntV(1)), Attribute(LineName, LengthName)}
TreeOperators == {"or", "and", ">", "=="}

\* the ASTs with exactly k operators
RECURSIVE TreesOf(_)
TreesOf(k) ==
    IF k = 0 THEN Leaves
    ELSE {UnaryOp("not", x) : x \in TreesOf(k - 1)}
         \cup UNION {{BinaryOp(l, op, r) :
                         l \in TreesOf(i), op \in TreeOperators,
                         r \in TreesOf(k - 1 - i)} : i \in 0..(k - 1)}

GrammarTrees == UNION {TreesOf(k) : k \in 0..MaxOps}
GrammarTexts == {Text(t) : t \in GrammarTrees}

\* operands of a negated comparison: atoms, negations, and expressions that
\* are written in parentheses
NotOperands ==
    Leaves
    \cup {UnaryOp("not", x) : x \in Leaves}
    \cup {BinaryOp(Literal(IntV(1)), op, Attribute(LineName, LengthName)) :
             op \in TreeOperators}

\* "not X cmp Y" for every comparator, with the operands it is written from
NotComparisonCases ==
    {[text |-> <<"n", "o", "t", " ">> \o Operand(x, 3) \o <<" ">> \o OpText(op)
                \o <<" ">> \o Operand(y, 3),
      x |-> x, op |-> op, y |-> y] :
        x \in NotOperands, op \in ComparatorTexts, y \in NotOperands}

\* "not not X"
NotNotCases ==
    {[text |-> <<"n", "o", "t", " ", "n", "o", "t", " ">> \o Operand(x, 3),
      x |-> x] : x \in NotOperands}

NotTexts ==
    {c.text : c \in NotComparisonCases} \cup {c.text : c \in NotNotCases}

\* the text of t ends in a comparison that is not inside parentheses: a
\* comparator that follows it would chain
RECURSIVE EndsInComparison(_)
EndsInComparison(t) ==
    /\ t.node = "BinaryOp"
    /\ CASE t.op = "or" -> Level(t.right) >= 1 /\ EndsInComparison(t.right)
         [] t.op = "and" -> Level(t.right) >= 2 /\ EndsInComparison(t.right)
         [] OTHER -> TRUE

\* what may follow an expression: a comparator and an operand, or tokens that
\* no expression goes on with; token is the text of the first token
ComparatorTrailers ==
    {[text |-> OpText(op) \o <<" ">> \o Text(y), token |-> OpText(op),
      comparator |-> TRUE] : op \in ComparatorTexts, y \in Leaves}

OtherTrailers ==
    {[text |-> tr[1], token |-> tr[2], comparator |-> FALSE] :
        tr \in {<<<<"1">>, <<"1">>>>,
                <<<<")">>, <<")">>>>,
                <<<<",">>, <<",">>>>,
                <<Quoted(<<"a">>), Quoted(<<"a">>)>>,
                <<<<"n", "o", "t", " ", "1">>, <<"n", "o", "t">>>>,
                <<Text(Attribute(LineName, LengthName)), LineName>>}}

\* an expression of at most one operator followed by a trailer that is left
\* over after it
LeftoverCases ==
    {[text |-> Text(p[1]) \o <<" ">> \o p[2].text, token |-> p[2].token] :
        p \in {q \in (TreesOf(0) \cup TreesOf(1))
                       \X (ComparatorTrailers \cup OtherTrailers) :
                  q[2].comparator => EndsInComparison(q[1])}}

TextChain == <<"l", "i", "n", "e", ".", "l", "e", "n", "g", "t", "h", " ", ">", " ", "1", " ", ">", " ", "2">>

LeftoverTexts == {c.text : c \in LeftoverCases} \cup {TextChain}

\* method calls on line with no argument, one string literal, and more
MethodNames == {ContainsName, StartswithName, EndswithName}
ArgumentTexts == {<<"a">>, <<>>}

CallOpen(method) == LineName \o <<".">> \o method \o <<"(">>

MethodCallCases ==
    {[text |-> CallOpen(m) \o <<")">>, method |-> m, args |-> <<>>] :
        m \in MethodNames}
    \cup {[text |-> CallOpen(m) \o Quoted(a) \o <<")">>, method |-> m,
           args |-> <<a>>] : m \in MethodNames, a \in ArgumentTexts}

\* a second argument after a comma, with or without a blank, and a third;
\* comma is the offset of the first comma
ExtraArgumentCases ==
    {[text |-> CallOpen(m) \o Quoted(a) \o sep \o Quoted(b) \o rest,
      comma |-> Len(CallOpen(m) \o Quoted(a))] :
        m \in MethodNames, a \in ArgumentTexts, b \in {<<"b">>, <<>>},
        sep \in {<<",">>, <<",", " ">>},
        rest \in {<<")">>, <<",", " ">> \o Quoted(<<"c">>) \o <<")">>}}

MethodTexts ==
    {c.text : c \in MethodCallCases} \cup {c.text : c \in ExtraArgumentCases}

\* bare function calls: identifiers other than group followed by "(", and
\* group( followed by something else than a string literal and ")"
GroupWord == <<"g", "r", "o", "u", "p">>
OtherFunctionNames ==
    {<<"f", "o", "o">>, LineName, LengthName, <<"g", "r", "o", "u", "p", "s">>}

\* what stands before the call: nothing, a not, a comparison, a parenthesis
CallPrefixes == {<<>>, <<"n", "o", "t", " ">>, <<"1", " ", ">", " ">>, <<"(">>}

UnknownFunctionCases ==
    {[text |-> prefix \o name \o open \o rest, name |-> name] :
        prefix \in CallPrefixes, name \in OtherFunctionNames,
        open \in {<<"(">>, <<" ", "(">>},
        rest \in {<<>>, <<")">>, Quoted(<<"a">>) \o <<")">>, <<"1", ")">>,
                  Quoted(<<"a">>)}}

\* group( and no string literal next
GroupWithoutStringCases ==
    {[text |-> prefix \o GroupWord \o <<"(">> \o rest] :
        prefix \in CallPrefixes,
        rest \in {<<>>, <<")">>, <<"1", ")">>,
                  Text(Attribute(LineName, LengthName)) \o <<")">>}}

\* group("a" and no ")" next
GroupUnclosedCases ==
    {[text |-> prefix \o GroupWord \o <<"(">> \o Quoted(<<"a">>) \o rest] :
        prefix \in CallPrefixes,
        rest \in {<<>>, <<" ">> \o Quoted(<<"b">>) \o <<")">>,
                  <<",", " ">> \o Quoted(<<"b">>) \o <<")">>, <<" ", "1">>}}

TextGroupA == GroupWord \o <<"(">> \o Quoted(<<"a">>) \o <<")">>

FunctionTexts ==
    {c.text : c \in UnknownFunctionCases}
    \cup {c.text : c \in GroupWithoutStringCases}
    \cup {c.text : c \in GroupUnclosedCases}
    \cup {TextGroupA}

\* the texts handed to parse_where_expression
ParseTexts ==
    GrammarTexts
    \cup NotTexts
    \cup LeftoverTexts
    \cup MethodTexts
    \cup FunctionTexts

ParseInit ==
    /\ runIdle
    /\ pc = "parse"
    /\ expression \in ParseTexts
    /\ tokens_result = None
    /\ parse_result = None
    /\ ast = None
    /\ eval_context = None
    /\ eval_result = None
    /\ evaluations = <<>>

ParseNext == Tokenize \/ ParseWhere

SpecParse == ParseInit /\ [][ParseNext]_vars


(***************************************************************************)
(* C18.  Precedence and associativity: or binds loosest, then and, then    *)
(* comparison; or and and are left-associative.  "A or B and C" parses to  *)
(* or(A, and(B, C)), "A and B and C" to and(and(A, B), C), and a           *)
(* parenthesised sub-expression is a single atom.  Stated as a round       *)
(* trip: a text written from an AST by the grammar, with parentheses only  *)
(* where these precedences ask for them, parses, and the AST the parser    *)
(* returns is written as the same text; no two ASTs are written alike, so  *)
(* the parser returns the AST the text was written from.                   *)
(***************************************************************************)
One == Literal(IntV(1))
LineLength == Attribute(LineName, LengthName)
TextOrAnd == <<"1", " ", "o", "r", " ", "l", "i", "n", "e", ".", "l", "e", "n", "g", "t", "h", " ", "a", "n", "d", " ", "1">>
TextAndAnd == <<"1", " ", "a", "n", "d", " ", "l", "i", "n", "e", ".", "l", "e", "n", "g", "t", "h", " ", "a", "n", "d", " ", "1">>
TextParenOrAnd == <<"(", "1", " ", "o", "r", " ", "l", "i", "n", "e", ".", "l", "e", "n", "g", "t", "h", ")", " ", "a", "n", "d", " ", "1">>

\* distinct ASTs are written as distinct texts
TextIsInjective == Cardinality(GrammarTexts) = Cardinality(GrammarTrees)

C18_PrecedenceAndAssociativity ==
    (pc = "parse" /\ parse_result # None) =>
        /\ TextIsInjective
        /\ expression \in GrammarTexts =>
               /\ IsOk(parse_result)
               /\ Text(parse_result.value) = expression
        /\ expression = TextOrAnd =>
               parse_result = Ok(BinaryOp(One, "or",
                                          BinaryOp(LineLength, "and", One)))
        /\ expression = TextAndAnd =>
               parse_result = Ok(BinaryOp(BinaryOp(One, "and", LineLength),
                                          "and", One))
        /\ expression = TextParenOrAnd =>
               parse_result = Ok(BinaryOp(BinaryOp(One, "or", LineLength),
                                          "and", One))

\* "1 or line.length and 1" has been parsed: the and is the right operand of
\* the or
C18_Witness ==
    /\ pc = "parse"
    /\ expression = TextOrAnd
    /\ parse_result # None
    /\ IsOk(parse_result)
    /\ parse_result.value.op = "or"
    /\ parse_result.value.right.op = "and"


(***************************************************************************)
(* C17.  "not X cmp Y", for any comparator, parses to                      *)
(* BinaryOp(UnaryOp(not, X), cmp, Y) and never to                          *)
(* UnaryOp(not, BinaryOp(X, cmp, Y)); "not not X" nests, giving            *)
(* UnaryOp(not, UnaryOp(not, X)).                                          *)
(***************************************************************************)
C17_NotAppliesToLeftOperand ==
    (pc = "parse" /\ parse_result # None) =>
        /\ \A c \in NotComparisonCases :
               expression = c.text =>
                   parse_result =
                       Ok(BinaryOp(UnaryOp("not", c.x), c.op, c.y))
        /\ \A c \in NotNotCases :
               expression = c.text =>
                   parse_result = Ok(UnaryOp("not", UnaryOp("not", c.x)))

TextNotComparison == <<"n", "o", "t", " ", "1", " ", ">", " ", "l", "i", "n", "e", ".", "l", "e", "n", "g", "t", "h">>

\* "not 1 > line.length" has been parsed: a comparison whose left operand is
\* the negation
C17_Witness ==
    /\ pc = "parse"
    /\ expression = TextNotComparison
    /\ parse_result =
           Ok(BinaryOp(UnaryOp("not", One), ">", LineLength))


(***************************************************************************)
(* C16.  Comparisons do not chain: a cmp_expr takes at most one            *)
(* comparator, and any token left after the top-level expression is a      *)
(* ParseError ("Unexpected token after expression", with the token).       *)
(* "line.length > 1 > 2" fails at the second comparator.                   *)
(***************************************************************************)
UnexpectedTokenAfter(token) ==
    Err(<<"Unexpected token after expression: ">> \o token)

C16_LeftoverTokenIsParseError ==
    (pc = "parse" /\ parse_result # None) =>
        /\ \A c \in LeftoverCases :
               expression = c.text =>
                   parse_result = UnexpectedTokenAfter(c.token)
        /\ expression = TextChain =>
               parse_result = UnexpectedTokenAfter(<<">">>)

\* "line.length > 1 > 2" has been parsed and rejected at the second ">"
C16_Witness ==
    /\ pc = "parse"
    /\ expression = TextChain
    /\ parse_result = UnexpectedTokenAfter(<<">">>)
    /\ ast = None


(***************************************************************************)
(* C15.  A method call written with more than one argument, such as        *)
(* line.contains("a", "b"), is accepted by the parser, the extra           *)
(* arguments being dropped, so that the MethodCall carries only the first  *)
(* argument.  This is not what the parser does.                            *)
(***************************************************************************)
TextContainsTwo == <<"l", "i", "n", "e", ".", "c", "o", "n", "t", "a", "i", "n", "s", "(", "\"", "a", "\"", ",", " ", "\"", "b", "\"", ")">>

C15_ExtraArgumentsAreDropped ==
    (pc = "parse" /\ parse_result # None /\ expression = TextContainsTwo) =>
        parse_result = Ok(MethodCall(LineName, ContainsName, <<<<"a">>>>))

(***************************************************************************)
(* C15, as the parser has it.  A method call takes no argument or one      *)
(* string literal, and the MethodCall carries exactly what was written.    *)
(* After the first string literal the parser consumes ")": a comma there   *)
(* is the ParseError "Expected RPAREN, got COMMA at position N", N the     *)
(* offset of the comma, and no MethodCall is produced.                     *)
(***************************************************************************)
ExpectedRParenGotComma(position) ==
    Err(<<"Expected ", "RPAREN", ", got ", "COMMA", " at position ",
          ToString(position)>>)

C15_ExtraArgumentIsParseError ==
    (pc = "parse" /\ parse_result # None) =>
        /\ \A c \in ExtraArgumentCases :
               expression = c.text =>
                   /\ parse_result = ExpectedRParenGotComma(c.comma)
                   /\ ast = None
        /\ \A c \in MethodCallCases :
               expression = c.text =>
                   parse_result = Ok(MethodCall(LineName, c.method, c.args))

\* line.contains("a", "b") has been parsed and rejected at its comma
C15_Witness ==
    /\ pc = "parse"
    /\ expression = TextContainsTwo
    /\ parse_result = ExpectedRParenGotComma(17)
    /\ ast = None


(***************************************************************************)
(* C19.  group(...) is the only bare function call: for every identifier   *)
(* other than group that is directly followed by "(", parse returns a      *)
(* ParseError ("Unknown function", with the name), whatever follows and    *)
(* wherever an operand may stand; group( not followed by a string and      *)
(* ")" is a ParseError too; no AST is produced in either case, and         *)
(* group("a") is the AST GroupAccess("a").                                 *)
(***************************************************************************)
C19_OnlyGroupIsAFunction ==
    (pc = "parse" /\ parse_result # None) =>
        /\ \A c \in UnknownFunctionCases :
               expression = c.text =>
                   /\ parse_result = Err(<<"Unknown function: ">> \o c.name)
                   /\ ast = None
        /\ \A c \in GroupWithoutStringCases :
               expression = c.text =>
                   /\ parse_result = Err(<<"group() requires string argument">>)
                   /\ ast = None
        /\ \A c \in GroupUnclosedCases :
               expression = c.text =>
                   /\ IsErr(parse_result)
                   /\ ast = None
        /\ expression = TextGroupA =>
               parse_result = Ok(GroupAccess(<<"a">>))

TextFooA == <<"f", "o", "o", "(", "\"", "a", "\"", ")">>

\* foo("a") has been parsed and rejected
C19_Witness ==
    /\ pc = "parse"
    /\ expression = TextFooA
    /\ parse_result = Err(<<"Unknown function: ", "f", "o", "o">>)
    /\ ast = None


(***************************************************************************)
(* C20.  A BinaryOp evaluates both operands before its operator, and and   *)
(* or included: when the evaluation of either operand fails, the BinaryOp  *)
(* gives an EvaluationError whatever the value of the other operand (a     *)
(* true left operand of an or with a failing right operand is an error,    *)
(* not true).  The error is that of the left operand when it fails, and    *)
(* that of the right operand otherwise.                                    *)
(***************************************************************************)
OperandFails(operand) == IsErr(evaluate_where(operand, eval_context))

C20_BothOperandsEvaluated ==
    (pc = "evaluate" /\ eval_result # None /\ ast.node = "BinaryOp") =>
        /\ OperandFails(ast.left) =>
               eval_result = evaluate_where(ast.left, eval_context)
        /\ (~OperandFails(ast.left) /\ OperandFails(ast.right)) =>
               eval_result = evaluate_where(ast.right, eval_context)
        /\ (OperandFails(ast.left) \/ OperandFails(ast.right)) =>
               /\ IsErr(eval_result)
               /\ eval_result.error[1] = "Evaluation error: "

\* true or line.bogus has been evaluated, to an error
C20_Witness ==
    /\ pc = "evaluate"
    /\ ast = BinaryOp(Literal(BoolV(TRUE)), "or",
                      Attribute(LineName, <<"b", "o", "g", "u", "s">>))
    /\ eval_result # None
    /\ IsErr(eval_result)
    /\ eval_result.error[1] = "Evaluation error: "


(***************************************************************************)
(* C21.  Truthiness is total over the runtime values that and, or and not  *)
(* meet: a boolean is itself, an integer is true iff it is not zero, a     *)
(* text is true iff it is not empty; and, or and not always return a       *)
(* boolean, equal to the logical operation on the truthiness of the        *)
(* operands, for every combination of operand types.                       *)
(***************************************************************************)
\* truthiness as the three cases state it
TruthOf(v) ==
    CASE v.type = "bool" -> v.bool = TRUE
      [] v.type = "int" -> ~(v.int = 0)
      [] v.type = "str" -> Len(v.str) > 0

\* the value an operand evaluates to, for an operand that does not fail
ValueOf(operand) == evaluate_where(operand, eval_context).value

C21_LogicalOperatorsOnTruthiness ==
    (pc = "evaluate" /\ eval_result # None) =>
        /\ (ast.node = "BinaryOp" /\ ast.op \in {"and", "or"}
              /\ ~OperandFails(ast.left) /\ ~OperandFails(ast.right)) =>
               /\ ValueOf(ast.left).type \in {"bool", "int", "str"}
               /\ ValueOf(ast.right).type \in {"bool", "int", "str"}
               /\ eval_result =
                      Ok(BoolV(IF ast.op = "and"
                               THEN TruthOf(ValueOf(ast.left))
                                    /\ TruthOf(ValueOf(ast.right))
                               ELSE TruthOf(ValueOf(ast.left))
                                    \/ TruthOf(ValueOf(ast.right))))
        /\ (ast.node = "UnaryOp" /\ ast.op = "not" /\ ~OperandFails(ast.operand)) =>
               /\ ValueOf(ast.operand).type \in {"bool", "int", "str"}
               /\ eval_result = Ok(BoolV(~TruthOf(ValueOf(ast.operand))))

\* "" or 0 has been evaluated, to false: a text and an integer as operands
C21_Witness ==
    /\ pc = "evaluate"
    /\ ast = BinaryOp(Literal(StrV(<<>>)), "or", Literal(IntV(0)))
    /\ eval_result = Ok(BoolV(FALSE))


(***************************************************************************)
(* C22.  The composite filter is the logical AND of the clauses evaluated  *)
(* in the order given: it stops at the first clause that evaluates to      *)
(* false (the result is false) or fails (the result is that                *)
(* EvaluationError), whatever later clauses would give; with no clause it  *)
(* returns true for every context, so every pattern match becomes a        *)
(* successful outcome.  Stated on the outcomes of a run whose clauses all  *)
(* parse: a matched line gives a successful outcome, no outcome, or the    *)
(* failed outcome of the first failing clause, as the first deciding       *)
(* clause says.                                                            *)
(***************************************************************************)
\* the clauses of the run as ASTs, in the order given
ClauseAsts ==
    [k \in DOMAIN args.where_clauses |->
        parse_where_expression(args.where_clauses[k]).value]

\* the clauses that end the conjunction for a context: false, or failing
Deciding(asts, ctx) ==
    {k \in DOMAIN asts :
        \/ IsErr(evaluate_where(asts[k], ctx))
        \/ ~TruthOf(evaluate_where(asts[k], ctx).value)}

First(set) == CHOOSE k \in set : \A j \in set : k <= j

ConjunctionOf(asts, ctx) ==
    IF Deciding(asts, ctx) = {} THEN Ok(BoolV(TRUE))
    ELSE IF IsErr(evaluate_where(asts[First(Deciding(asts, ctx))], ctx))
         THEN evaluate_where(asts[First(Deciding(asts, ctx))], ctx)
    ELSE Ok(BoolV(FALSE))

C22_FilterIsOrderedConjunction ==
    \A i \in 1..Len(source) :
        (Resolved(i) /\ IsOk(source[i]) /\ IsOk(MatchOf(i))
            /\ ~SomeClauseFailsToParse) =>
            /\ ConjunctionOf(ClauseAsts, MatchOf(i).value) = Ok(BoolV(TRUE)) =>
                   /\ Cardinality(OutcomesFor(i)) = 1
                   /\ \A k \in OutcomesFor(i) :
                          outcomes[k].result = Ok(MatchOf(i).value)
            /\ ConjunctionOf(ClauseAsts, MatchOf(i).value) = Ok(BoolV(FALSE)) =>
                   OutcomesFor(i) = {}
            /\ IsErr(ConjunctionOf(ClauseAsts, MatchOf(i).value)) =>
                   /\ Cardinality(OutcomesFor(i)) = 1
                   /\ \A k \in OutcomesFor(i) :
                          outcomes[k].result =
                              ConjunctionOf(ClauseAsts, MatchOf(i).value)
            /\ args.where_clauses = <<>> =>
                   \E k \in OutcomesFor(i) : IsOk(outcomes[k].result)

ClauseLengthOver9 == <<"l", "i", "n", "e", ".", "l", "e", "n", "g", "t", "h", " ", ">", " ", "9">>

\* "INFO: ok" matched the pattern o and met line.length > 9, which is false,
\* before line.bogus > 1, which fails: the line gave no outcome
C22_Witness ==
    /\ args.pattern = <<"o">>
    /\ args.where_clauses = <<ClauseLengthOver9, ClauseBogus>>
    /\ Len(source) >= 1
    /\ source[1] = Ok(Line(1, LineInfoOk))
    /\ Resolved(1)
    /\ 1 \in Range(filter_calls)
    /\ OutcomesFor(1) = {}


(***************************************************************************)
(* evaluate_where called again and again (SpecRepeat): the caller holds    *)
(* one AST and one MatchContext and evaluates them any number of times,    *)
(* with evaluations of other ASTs and contexts in between.  evaluate_where *)
(* and _evaluate_node assign to nothing but their locals, and the methods  *)
(* of Line they call return new values: a call changes neither its         *)
(* arguments nor anything else.                                            *)
(***************************************************************************)
\* the largest number of calls of evaluate_where in a row
MaxEvaluations == 3

RepeatAsts ==
    {BinaryOp(Attribute(LineName, LengthName), ">", Literal(IntV(0))),
     MethodCall(LineName, ContainsName, <<<<"x">>>>),
     GroupAccess(GroupName),
     UnaryOp("not", Attribute(LineName, ContentName))}

RepeatContexts ==
    {MatchContext(Line(1, <<"x">>), NoGroups),
     MatchContext(Line(2, <<>>), [n \in {GroupName} |-> StrV(<<"a">>)])}

RepeatInit ==
    /\ runIdle
    /\ pc = "repeat"
    /\ expression = <<>>
    /\ tokens_result = None
    /\ parse_result = None
    /\ ast \in RepeatAsts
    /\ eval_context \in RepeatContexts
    /\ eval_result = None
    /\ evaluations = <<>>

\* an evaluation that empties the line of the context it was given
EvaluateAgain_ConsumesLine ==
    /\ pc = "repeat"
    /\ Len(evaluations) < MaxEvaluations
    /\ eval_result' = evaluate_where(ast, eval_context)
    /\ eval_context' =
           MatchContext(Line(eval_context.line.number, <<>>), eval_context.groups)
    /\ evaluations' = Append(evaluations,
                             Evaluation(ast, eval_context, eval_result'))
    /\ UNCHANGED <<runVars, expression, tokens_result, parse_result, ast>>

\* evaluate_where(ast, eval_context), once more
EvaluateAgain ==
    /\ pc = "repeat"
    /\ Len(evaluations) < MaxEvaluations
    /\ eval_result' = evaluate_where(ast, eval_context)
    /\ evaluations' = Append(evaluations,
                             Evaluation(ast, eval_context, eval_result'))
    /\ UNCHANGED <<runVars, expression, tokens_result, parse_result, ast,
                   eval_context>>

\* evaluate_where on another AST or another context, in between
EvaluateOther ==
    /\ pc = "repeat"
    /\ Len(evaluations) < MaxEvaluations
    /\ \E node \in RepeatAsts, ctx \in RepeatContexts :
           /\ <<node, ctx>> # <<ast, eval_context>>
           /\ evaluations' = Append(evaluations,
                                    Evaluation(node, ctx, evaluate_where(node, ctx)))
    /\ UNCHANGED <<runVars, expression, tokens_result, parse_result, ast,
                   eval_context, eval_result>>

RepeatNext == EvaluateAgain \/ EvaluateOther

SpecRepeat == RepeatInit /\ [][RepeatNext]_vars

(***************************************************************************)
(* C23.  Evaluation is a deterministic pure function of the AST and the    *)
(* MatchContext: evaluating the same AST against the same MatchContext     *)
(* any number of times, interleaved with evaluations of other ASTs and     *)
(* contexts, returns the same result each time, and leaves the AST, the    *)
(* context and all other state unchanged.                                  *)
(***************************************************************************)
\* equal arguments gave equal results, in every pair of calls so far
SameArgumentsSameResult ==
    \A j, k \in DOMAIN evaluations :
        (evaluations[j].ast = evaluations[k].ast
            /\ evaluations[j].context = evaluations[k].context) =>
            evaluations[j].result = evaluations[k].result

\* a step of evaluation changes only the result the caller holds and the
\* list of calls, which grows by one
OnlyTheResultChanges ==
    pc = "repeat" =>
        /\ ast' = ast
        /\ eval_context' = eval_context
        /\ runVars' = runVars
        /\ expression' = expression
        /\ tokens_result' = tokens_result
        /\ parse_result' = parse_result
        /\ SubSeq(evaluations', 1, Len(evaluations)) = evaluations

ConsumerHolds == pc \in {"emit", "yielded"} \/ (pc = "returned" /\ StoppedEarly)

\* the item that produced the last outcome pulled; 0 when none was pulled
LastPulledItem ==
    IF outcomes = <<>> THEN 0 ELSE outcomes[Len(outcomes)].index

C24_PipelineIsLazy ==
    /\ pc \in {"run", "construct"} =>
           next_index = 0 /\ matcher_calls = <<>> /\ filter_calls = <<>>
    /\ (pc = "returned" /\ ~ReaderSelected) =>
           next_index = 0 /\ matcher_calls = <<>> /\ filter_calls = <<>>
    /\ ConsumerHolds =>
           /\ next_index = LastPulledItem
           /\ \A k \in DOMAIN matcher_calls : matcher_calls[k] <= LastPulledItem
           /\ \A k \in DOMAIN filter_calls : filter_calls[k] <= LastPulledItem

\* one outcome pulled, produced by the first item, and the source has more
C24_Witness ==
    /\ pc = "yielded"
    /\ Len(outcomes) = 1
    /\ LastPulledItem = 1
    /\ Len(source) = 2
    /\ matcher_calls = <<1>>
    /\ filter_calls = <<1>>


(***************************************************************************)
(* From the command line to the matcher (SpecCase).  parse_args            *)
(* (cli/parser.py) turns the argparse namespace into CLIArgs, resolving    *)
(* the case sensitivity; create_matcher (matcher.py) then chooses the      *)
(* matcher, which is called on a line.  pc is "parse_args",                *)
(* "create_matcher", "match" and "matched" in turn; line_result is the     *)
(* line handed to the matcher and context what the matcher returned.       *)
(***************************************************************************)
\* the longest --match pattern considered
MaxPatternLen == 3

\* cli/parser.py has its own detection, written with the literals 3 and '/'
cli_is_regex_pattern(pattern) ==
    /\ Len(pattern) >= 3
    /\ pattern[1] = "/"
    /\ pattern[Len(pattern)] = "/"

\* a resolution in which a regex pattern is case-sensitive whatever the flag
_determine_case_sensitivity_PatternFirst(pattern, case_flag) ==
    IF cli_is_regex_pattern(pattern) THEN TRUE
    ELSE IF case_flag = "sensitive" THEN TRUE
    ELSE FALSE

\* case_flag is "sensitive", "insensitive" or "None" (no --case option)
_determine_case_sensitivity(pattern, case_flag) ==
    IF case_flag = "sensitive" THEN TRUE
    ELSE IF case_flag = "insensitive" THEN FALSE
    ELSE IF cli_is_regex_pattern(pattern) THEN TRUE
    ELSE FALSE

\* the namespace argparse fills
Namespace(src, match, case, where_clauses) ==
    [source |-> src, match |-> match, case |-> case,
     where_clauses |-> where_clauses]

CaseFlags == {"sensitive", "insensitive", "None"}

\* the sequences over a set of characters, of length at most n
TextsUpTo(chars, n) == UNION {[1..k -> chars] : k \in 0..n}

CasePatterns == TextsUpTo({"/", "a", "A", "("}, MaxPatternLen)

CaseContents == TextsUpTo({"a", "A", "/"}, MaxContentLen)

CaseInit ==
    /\ whereIdle
    /\ args \in {Namespace("app.log", p, f, <<>>) :
                    p \in CasePatterns, f \in CaseFlags}
    /\ source = <<>>
    /\ pc = "parse_args"
    /\ matcher = None
    /\ filter_fn = None
    /\ next_index = 0
    /\ line_result = None
    /\ context = None
    /\ outcomes = <<>>
    /\ stdout = <<>>
    /\ stderr = <<>>
    /\ run_result = None
    /\ matcher_calls = <<>>
    /\ filter_calls = <<>>

\* parse_args, after argparse succeeded on a namespace with a source
ParseArgs ==
    /\ pc = "parse_args"
    /\ args' = CLIArgs(args.source, args.match,
                       _determine_case_sensitivity(args.match, args.case),
                       args.where_clauses)
    /\ pc' = "create_matcher"
    /\ UNCHANGED <<source, matcher, filter_fn, next_index, line_result, context,
                   outcomes, stdout, stderr, run_result, matcher_calls,
                   filter_calls, whereVars>>

\* create_matcher(MatchConfig(args.pattern, args.case_sensitive))
CreateMatcher ==
    /\ pc = "create_matcher"
    /\ matcher' = create_matcher(MatchConfig(args.pattern, args.case_sensitive))
    /\ pc' = "match"
    /\ UNCHANGED <<args, source, filter_fn, next_index, line_result, context,
                   outcomes, stdout, stderr, run_result, matcher_calls,
                   filter_calls, whereVars>>

\* matcher(line), for some line
MatchLine ==
    /\ pc = "match"
    /\ \E content \in CaseContents :
           /\ line_result' = Ok(Line(1, content))
           /\ context' = call_matcher(matcher, Line(1, content))
    /\ pc' = "matched"
    /\ UNCHANGED <<args, source, matcher, filter_fn, next_index, outcomes,
                   stdout, stderr, run_result, matcher_calls, filter_calls,
                   whereVars>>

CaseNext == ParseArgs \/ CreateMatcher \/ MatchLine

SpecCase == CaseInit /\ [][CaseNext]_vars

(***************************************************************************)
(* C25.  Case-sensitivity resolution: an explicit flag ('sensitive' or     *)
(* 'insensitive') always determines the result whatever the pattern; with  *)
(* no flag, a regex pattern resolves to case-sensitive and a literal       *)
(* pattern to case-insensitive; the literal matcher built case-insensitive *)
(* matches a line iff the lower-cased pattern is a substring of the        *)
(* lower-cased content.                                                    *)
(***************************************************************************)
\* what the resolution is to be, for the namespace parse_args was given
FlagOrDefault ==
    ParseArgs =>
        args'.case_sensitive =
            CASE args.case = "sensitive" -> TRUE
              [] args.case = "insensitive" -> FALSE
              [] OTHER -> _is_regex_pattern(args.match)

LiteralInsensitiveIsLowercaseSubstring ==
    (pc = "matched" /\ matcher.kind = "literal" /\ ~args.case_sensitive) =>
        (IsOk(context) <=>
            Contains(Lower(line_result.value.content), Lower(args.pattern)))

C25_CaseSensitivityResolution ==
    /\ [][FlagOrDefault]_vars
    /\ []LiteralInsensitiveIsLowercaseSubstring

\* a regex pattern given with --case insensitive resolved to insensitive, and
\* its matcher found "a" in "A"
C25_Witness ==
    /\ pc = "matched"
    /\ args.pattern = <<"/", "a", "/">>
    /\ ~args.case_sensitive
    /\ line_result.value.content = <<"A">>
    /\ IsOk(context)

(***************************************************************************)
(* C28.  Pattern-type detection is consistent across the program: a        *)
(* pattern is a regex iff its length is at least 3 and it starts and ends  *)
(* with "/" (so "/" and "//" are literals), the delimiters are stripped    *)
(* before compilation, and the detection used to choose the                *)
(* case-sensitivity default (cli) returns the same answer as the detection *)
(* used to choose the matcher (domain) for every pattern string.           *)
(***************************************************************************)
\* the --match pattern of the run
PatternGiven == IF pc = "parse_args" THEN args.match ELSE args.pattern

IsDelimited(p) == Len(p) >= 3 /\ Head(p) = "/" /\ p[Len(p)] = "/"

\* the pattern without its first and last character
Undelimited(p) == [i \in 1..(Len(p) - 2) |-> p[i + 1]]

\* the matcher is the one compiling the undelimited pattern gives
CompiledFromUndelimited ==
    LET compiled == re_compile(Undelimited(args.pattern), ~args.case_sensitive)
    IN  IF IsErr(compiled) THEN matcher.kind = "always_err"
        ELSE /\ matcher.kind = "regex"
             /\ matcher.compiled_regex = compiled.value

C28_PatternDetectionIsConsistent ==
    /\ _is_regex_pattern(PatternGiven) <=> IsDelimited(PatternGiven)
    /\ cli_is_regex_pattern(PatternGiven) <=> _is_regex_pattern(PatternGiven)
    /\ pc \in {"match", "matched"} =>
           IF IsDelimited(args.pattern) THEN CompiledFromUndelimited
           ELSE matcher.kind \in {"literal", "always_err"}
    /\ (pc = "matched" /\ args.pattern \in {<<"/">>, <<"/", "/">>}) =>
           (IsOk(context) <=>
               Contains(line_result.value.content, args.pattern))

\* the regex /a/ matched a line that holds no "/"
C28_Witness ==
    /\ pc = "matched"
    /\ args.pattern = <<"/", "a", "/">>
    /\ args.case_sensitive
    /\ matcher.kind = "regex"
    /\ line_result.value.content = <<"a">>
    /\ IsOk(context)


(***************************************************************************)
(* The pipeline iterating a source, and calls of tokenize,                 *)
(* parse_where_expression and evaluate_where, side by side (SpecErrors).   *)
(* The pipeline is the generator build_pipeline(matcher, filter_fn)        *)
(* returned, about to be pulled from for the first time: it knows its      *)
(* matcher, its filter and its source, and nothing of the command line.    *)
(***************************************************************************)
\* the ASTs of the clauses of a filter: one that is true or false by the
\* line, one that is a text, one that fails to evaluate
FilterAsts ==
    << BinaryOp(Attribute(LineName, LengthName), ">", Literal(IntV(9))),
       Attribute(LineName, ContentName),
       BinaryOp(Attribute(LineName, <<"b", "o", "g", "u", "s">>), ">",
                Literal(IntV(1))) >>

\* the three closures create_filter can return
Filters ==
    {[kind |-> "pass"], AlwaysErr(<<"Parse error: ", "Unexpected end of expression">>)}
    \cup {[kind |-> "composite", parsed_asts |-> asts] :
            asts \in SeqsUpTo(FilterAsts, MaxClauses) \ {<<>>}}

IterationInit ==
    /\ args = None
    /\ source \in {LineResults(items) : items \in SeqsUpTo(Items, MaxLines)}
    /\ pc = "emit"
    /\ matcher \in {create_matcher(MatchConfig(Patterns[p], c)) :
                       p \in DOMAIN Patterns, c \in BOOLEAN}
    /\ filter_fn \in Filters
    /\ next_index = 0
    /\ line_result = None
    /\ context = None
    /\ outcomes = <<>>
    /\ stdout = <<>>
    /\ stderr = <<>>
    /\ run_result = None
    /\ matcher_calls = <<>>
    /\ filter_calls = <<>>
    /\ whereIdle

ErrorsInit == IterationInit \/ ParseInit \/ WhereInit

\* the steps of the pipeline and of its consumer
IterationNext ==
    \/ EmitterPull
    \/ PipelineFetch
    \/ PipelineExhausted
    \/ PipelineStage1
    \/ PipelineStage2
    \/ PipelineStage3
    \/ EmitterPrint
    \/ EmitterBrokenPipe

ErrorsNext == IterationNext \/ WhereNext

SpecErrors == ErrorsInit /\ [][ErrorsNext]_vars

(***************************************************************************)
(* C26.  All errors are values: for every input string, tokenize and       *)
(* parse_where_expression return Ok or Err and never raise; for every AST  *)
(* and context evaluate_where returns Ok or Err and never raises; and the  *)
(* pipeline never raises while iterating a source that itself yields only  *)
(* Ok(Line) or Err(message) items.                                         *)
(***************************************************************************)
\* r is Ok(value), or Err(message) with a text for message
IsResult(r) ==
    \/ DOMAIN r = {"ok", "value"} /\ r.ok
    \/ DOMAIN r = {"ok", "error"} /\ ~r.ok /\ DOMAIN r.error = 1..Len(r.error)

EvaluationErrorPrefix == <<"Evaluation error: ">>

\* every position of control the pipeline has is one of its loop: no step
\* left it by an exception
InsideThePipeline ==
    pc \in {"emit", "fetch", "stage1", "stage2", "stage3", "yielded",
            "returned", "parse", "where"}

C26_ErrorsAreValues ==
    /\ tokens_result # None => IsResult(tokens_result)
    /\ parse_result # None => IsResult(parse_result)
    /\ eval_result # None =>
           /\ IsResult(eval_result)
           /\ IsErr(eval_result) =>
                  StartsWith(eval_result.error, EvaluationErrorPrefix)
    /\ \A k \in DOMAIN outcomes : IsResult(outcomes[k].result)
    /\ run_result # None => IsResult(run_result)
    /\ InsideThePipeline

\* line.bogus > 1 was tokenized and parsed, and the ValueError of its
\* evaluation came back as an Err
C26_Witness ==
    /\ pc = "where"
    /\ expression = ClauseBogus
    /\ eval_result # None
    /\ tokens_result # None
    /\ IsOk(tokens_result)
    /\ IsOk(parse_result)
    /\ IsErr(eval_result)
    /\ StartsWith(eval_result.error, EvaluationErrorPrefix)


(***************************************************************************)
(* tokenize on texts written from words and operator characters            *)
(* (SpecWords): a text is up to MaxPieces pieces, one after the other.     *)
(***************************************************************************)
\* the largest number of pieces in a text
MaxPieces == 3

Pieces ==
    << <<"a", "n", "d">>,
       <<"o", "r">>,
       <<"n", "o", "t">>,
       <<"a", "n", "d", "r", "o", "i", "d">>,
       <<"n", "o", "t", "_", "x">>,
       <<"o", "r", "d", "e", "r">>,
       <<">">>,
       <<"=">>,
       <<"<">>,
       <<"!">>,
       <<" ">>,
       <<"x">>,
       <<"\"">>,
       <<"1">> >>

RECURSIVE Flatten(_)
Flatten(seqs) == IF seqs = <<>> THEN <<>> ELSE Head(seqs) \o Flatten(Tail(seqs))

PieceTexts == {Flatten(pieces) : pieces \in SeqsUpTo(Pieces, MaxPieces)}

WordsInit ==
    /\ runIdle
    /\ pc = "tokenize"
    /\ expression \in PieceTexts
    /\ tokens_result = None
    /\ parse_result = None
    /\ ast = None
    /\ eval_context = None
    /\ eval_result = None
    /\ evaluations = <<>>

SpecWords == WordsInit /\ [][TokNext]_vars

(***************************************************************************)
(* C27.  Tokenization is longest-match-first: >=, <=, == and != are always *)
(* emitted as one two-character operator token and never split; and, or    *)
(* and not are emitted as keyword tokens only when they stand as whole     *)
(* words, so an identifier that merely starts with or contains a keyword   *)
(* (android, not_x, order) is a single IDENT token.                        *)
(***************************************************************************)
TwoCharacterOperators ==
    [GTE |-> <<">", "=">>, LTE |-> <<"<", "=">>,
     EQ |-> <<"=", "=">>, NEQ |-> <<"!", "=">>]

Keywords == [AND |-> <<"a", "n", "d">>, OR |-> <<"o", "r">>, NOT |-> <<"n", "o", "t">>]

\* offset i of the text is past the first character of token t
InsideToken(t, i) == t.position < i /\ i < t.position + Len(t.value)

\* the character at offset i of the text is a word character
WordAt(s, i) == 0 <= i /\ i < Len(s) /\ IsWord(At(s, i))

\* wherever a two-character operator begins outside a token, the token there
\* is that operator, and no > or < token has a = after it
OperatorsAreNotSplit(s, toks) ==
    /\ \A k \in DOMAIN toks :
           toks[k].type \in {"GT", "LT"} =>
               ~StartsWithAt(s, <<"=">>, toks[k].position + 1)
    /\ \A i \in 0..(Len(s) - 2), type \in DOMAIN TwoCharacterOperators :
           (/\ StartsWithAt(s, TwoCharacterOperators[type], i)
            /\ \A k \in DOMAIN toks : ~InsideToken(toks[k], i)) =>
               \E k \in DOMAIN toks :
                   /\ toks[k].position = i
                   /\ toks[k].type = type
                   /\ toks[k].value = TwoCharacterOperators[type]

\* a keyword token is the keyword, with no word character on either side;
\* an IDENT token runs to the end of its word
KeywordsAreWholeWords(s, toks) ==
    \A k \in DOMAIN toks :
        LET t == toks[k]
        IN  /\ t.type \in DOMAIN Keywords =>
                   /\ t.value = Keywords[t.type]
                   /\ ~WordAt(s, t.position - 1)
                   /\ ~WordAt(s, t.position + Len(t.value))
            /\ t.type = "IDENT" => ~WordAt(s, t.position + Len(t.value))
            /\ (t.type = "IDENT" /\ ~WordAt(s, t.position - 1)) =>
                   t.value \notin Range(Keywords)

C27_LongestMatchFirst ==
    (pc = "tokenize" /\ tokens_result # None) =>
        /\ IsOk(tokens_result) =>
               /\ OperatorsAreNotSplit(expression, tokens_result.value)
               /\ KeywordsAreWholeWords(expression, tokens_result.value)
        /\ expression \in {<<"a", "n", "d", "r", "o", "i", "d">>, <<"n", "o", "t", "_", "x">>, <<"o", "r", "d", "e", "r">>} =>
               tokens_result = Ok(<<Token("IDENT", expression, 0)>>)

\* android is one IDENT token: the and it starts with gave no keyword
C27_Witness ==
    /\ pc = "tokenize"
    /\ expression = <<"a", "n", "d", "r", "o", "i", "d">>
    /\ tokens_result = Ok(<<Token("IDENT", <<"a", "n", "d", "r", "o", "i", "d">>, 0)>>)


(***************************************************************************)
(* Runs whose clauses are not comparisons (SpecTruthy): the run, pipeline  *)
(* and emitter as above, with clauses that evaluate to an integer, a text  *)
(* or the value of a group, two patterns that match every line, and lines  *)
(* that make the clauses true and false.                                   *)
(***************************************************************************)
PatternAnyX == <<"/", "x", "*", "/">>
PatternOptionalG == <<"/", "(", "?", "P", "<", "g", ">", "a", ")", "?", "/">>
TruthyPatterns == <<PatternAnyX, PatternOptionalG>>

TruthyItems ==
    << [ok |-> TRUE, text |-> <<>>],
       [ok |-> TRUE, text |-> <<"x">>],
       [ok |-> TRUE, text |-> <<"a">>] >>

ClauseLength == <<"l", "i", "n", "e", ".", "l", "e", "n", "g", "t", "h">>
ClauseContent == <<"l", "i", "n", "e", ".", "c", "o", "n", "t", "e", "n", "t">>
ClauseGroupG == <<"g", "r", "o", "u", "p", "(", "\"", "g", "\"", ")">>
TruthyClauses == <<ClauseLength, ClauseContent, ClauseGroupG>>

TruthyInit ==
    /\ args \in {CLIArgs("app.log", TruthyPatterns[p], TRUE, w) :
                    p \in DOMAIN TruthyPatterns,
                    w \in SeqsUpTo(TruthyClauses, MaxClauses)}
    /\ source \in {LineResults(items) : items \in SeqsUpTo(TruthyItems, MaxLines)}
    /\ pc = "run"
    /\ matcher = None
    /\ filter_fn = None
    /\ next_index = 0
    /\ line_result = None
    /\ context = None
    /\ outcomes = <<>>
    /\ stdout = <<>>
    /\ stderr = <<>>
    /\ run_result = None
    /\ matcher_calls = <<>>
    /\ filter_calls = <<>>
    /\ whereIdle

SpecTruthy == TruthyInit /\ [][Next]_vars

(***************************************************************************)
(* C29.  The composite filter built by create_filter returns only          *)
(* Ok(True), Ok(False) or Err for every context, even when a clause        *)
(* evaluates to a non-boolean runtime value (an integer such as            *)
(* line.length or a text such as line.content): such a clause passes iff   *)
(* its value is truthy, and the non-boolean value never reaches the        *)
(* pipeline.                                                               *)
(***************************************************************************)
\* a value of a clause lets the line pass: a nonzero integer, a non-empty
\* text, true; None and the rest do not
LetsPass(v) ==
    CASE v.type = "int" -> v.int # 0
      [] v.type = "str" -> v.str # <<>>
      [] v.type = "bool" -> v.bool
      [] OTHER -> FALSE

\* the values of the clauses of the filter for a context
ClauseValues(ctx) ==
    [k \in DOMAIN filter_fn.parsed_asts |->
        evaluate_where(filter_fn.parsed_asts[k], ctx)]

\* what the filter is to answer when every clause has a value
AllPass(values) ==
    Ok(BoolV(\A k \in DOMAIN values : LetsPass(values[k].value)))

FilterAnswersWithABoolean(i) ==
    LET answer == FilterOf(i)
        values == ClauseValues(MatchOf(i).value)
    IN  /\ IsErr(answer) \/ answer \in {Ok(BoolV(TRUE)), Ok(BoolV(FALSE))}
        /\ (\A k \in DOMAIN values : IsOk(values[k])) => answer = AllPass(values)
        /\ (\E k \in OutcomesFor(i) : IsOk(outcomes[k].result)) <=>
               answer = Ok(BoolV(TRUE))
        /\ \A k \in OutcomesFor(i) :
               IsOk(outcomes[k].result) => outcomes[k].result = Ok(MatchOf(i).value)

C29_FilterReturnsOnlyBooleans ==
    \A i \in DOMAIN source :
        (/\ Resolved(i)
         /\ IsOk(source[i])
         /\ filter_fn.kind = "composite"
         /\ IsOk(MatchOf(i))) => FilterAnswersWithABoolean(i)

\* with the one clause line.length, the line "x" came out and the empty line
\* did not
C29_Witness ==
    /\ pc = "returned"
    /\ args.pattern = PatternAnyX
    /\ args.where_clauses = <<ClauseLength>>
    /\ source = <<Ok(Line(1, <<"x">>)), Ok(Line(2, <<>>))>>
    /\ filter_calls = <<1, 2>>
    /\ Len(outcomes) = 1
    /\ outcomes[1] = Outcome(1, Ok(MatchContext(Line(1, <<"x">>), NoGroups)))


(***************************************************************************)
(* The run with a consumer that keeps pulling (SpecPulling): stdout stays  *)
(* open, so the emitter's loop ends only when the pipeline does.  The     *)
(* emitter and the pipeline are one sequential loop: whenever it has a     *)
(* next step it takes it, which is weak fairness of the steps of the loop. *)
(***************************************************************************)
\* the steps of the emitter's loop and of the pipeline it pulls from
PullingLoop ==
    \/ EmitterPull
    \/ PipelineFetch
    \/ PipelineExhausted
    \/ PipelineStage1
    \/ PipelineStage2
    \/ PipelineStage3
    \/ EmitterPrint

\* a file of up to MaxLines items, every pattern with the case sensitivity
\* it has by default, and no clause or one
PullingInit ==
    /\ args \in {CLIArgs("app.log", Patterns[p],
                          _determine_case_sensitivity(Patterns[p], "None"), w) :
                    p \in DOMAIN Patterns, w \in SeqsUpTo(Clauses, 1)}
    /\ source \in {LineResults(items) : items \in SeqsUpTo(Items, MaxLines)}
    /\ pc = "run"
    /\ matcher = None
    /\ filter_fn = None
    /\ next_index = 0
    /\ line_result = None
    /\ context = None
    /\ outcomes = <<>>
    /\ stdout = <<>>
    /\ stderr = <<>>
    /\ run_result = None
    /\ matcher_calls = <<>>
    /\ filter_calls = <<>>
    /\ whereIdle

PullingNext == RunSelectReader \/ RunConstruct \/ PullingLoop

SpecPulling == PullingInit /\ [][PullingNext]_vars /\ WF_vars(PullingLoop)

(***************************************************************************)
(* C30.  For every finite input sequence, a consumer that keeps pulling    *)
(* eventually exhausts the pipeline: the pipeline terminates after         *)
(* requesting each input item exactly once, whatever mix of read errors,   *)
(* non-matches, filter rejections and evaluation errors occurs, and the    *)
(* number of outcomes never exceeds the number of input items.             *)
(***************************************************************************)
StrictlyIncreasing(indexes) ==
    \A j, k \in DOMAIN indexes : j < k => indexes[j] < indexes[k]

\* no more outcomes than items requested, no more items requested than the
\* source has, and no item gave two outcomes or met a stage twice
AtMostOneOutcomePerItem ==
    /\ Len(outcomes) <= next_index
    /\ next_index <= Len(source)
    /\ StrictlyIncreasing([k \in DOMAIN outcomes |-> outcomes[k].index])
    /\ StrictlyIncreasing(matcher_calls)
    /\ StrictlyIncreasing(filter_calls)

\* a request takes the item after the last one requested
RequestsTheNextItem ==
    next_index' # next_index =>
        /\ next_index' = next_index + 1
        /\ line_result' = source[next_index']

\* the run is over with every item of the source requested
Exhausted ==
    /\ pc = "returned"
    /\ ReaderSelected => next_index = Len(source)

C30_PipelineTerminates ==
    /\ []AtMostOneOutcomePerItem
    /\ [][RequestsTheNextItem]_vars
    /\ (pc = "emit") ~> Exhausted

\* a source of a read error and a line that does not match is exhausted, with
\* the one outcome of the read error
C30_Witness ==
    /\ Exhausted
    /\ ReaderSelected
    /\ Len(source) = 2
    /\ IsErr(source[1])
    /\ IsOk(source[2])
    /\ matcher_calls = <<2>>
    /\ filter_calls = <<>>
    /\ Len(outcomes) = 1

====
